---- MODULE Spec2Model ----
(***************************************************************************)
(* funnelctl: the LocalAPI apply orchestrator, the conflict/patch engine   *)
(* and the authenticated TCP transport, as state machines.                 *)
(*                                                                         *)
(* Conventions.  Option<T> is a tuple of length 0 (None) or 1 (Some(x)).   *)
(* A HashMap is a function; its iteration order is a permutation of its    *)
(* key set, chosen afresh at every iteration.  A URL path is the sequence  *)
(* of its characters.  host:port is the pair <<dns_name, port>>.           *)
(***************************************************************************)
EXTENDS Integers, Sequences, FiniteSets, TLC

\* ------------------------------------------------------------------ bounds

\* Revisions the daemon's document can go through in one run.
MaxRev == 4

\* ------------------------------------------------------------- small sets

None == << >>
Some(x) == << x >>
IsSome(o) == Len(o) = 1
Unwrap(o) == o[1]

EmptyMap == [k \in {} |-> TRUE]
Put(m, k, v) == [x \in (DOMAIN m) \cup {k} |-> IF x = k THEN v ELSE m[x]]
Without(m, k) == [x \in (DOMAIN m) \ {k} |-> m[x]]

\* Paths of the model, as character sequences: /a  /a/  /a/b
PathA == << "/", "a" >>
PathADir == << "/", "a", "/" >>
PathAB == << "/", "a", "/", "b" >>
Paths == {PathA, PathADir, PathAB}

\* Proxy targets, as LocalTarget's Display prints them.
Target1 == "http://127.0.0.1:8080"
Target2 == "http://127.0.0.1:9090"
Targets == {Target1, Target2}

\* Result<()>: Ok(()) and the errors, by kind and context.
NoError == [kind |-> "Ok", context |-> ""]
Error(kind, context) == [kind |-> kind, context |-> context]

\* ------------------------------------------------------ configuration model

\* HttpHandler::new_proxy
NewProxy(target) ==
    [proxy |-> Some(target), path |-> None, text |-> None, unknown |-> EmptyMap]

\* A text handler, as another client may install one.
TextHandler(body) ==
    [proxy |-> None, path |-> None, text |-> Some(body), unknown |-> EmptyMap]

\* WebServerConfig::new
NewWebServerConfig == [handlers |-> None, unknown |-> EmptyMap]

\* ServeConfig::new
NewServeConfig ==
    [tcp |-> None, web |-> None, allow_funnel |-> None, foreground |-> None,
     unknown |-> EmptyMap]

\* ServeConfig::get_handlers
GetHandlers(config, host_port) ==
    IF IsSome(config.web) /\ host_port \in DOMAIN Unwrap(config.web)
    THEN Unwrap(config.web)[host_port].handlers
    ELSE None

\* ServeConfig::is_funnel_enabled
IsFunnelEnabled(config, host_port) ==
    IF IsSome(config.allow_funnel) /\ host_port \in DOMAIN Unwrap(config.allow_funnel)
    THEN Unwrap(config.allow_funnel)[host_port]
    ELSE FALSE

\* str::ends_with('/')
EndsWithSlash(p) == Len(p) > 0 /\ p[Len(p)] = "/"

\* str::starts_with
StartsWith(s, prefix) ==
    Len(prefix) <= Len(s) /\ SubSeq(s, 1, Len(prefix)) = prefix

\* Any path taken as a prefix mount.
IsPrefixOfAnyPath(mapping_path, other) == StartsWith(other, mapping_path)

\* PathMapping::is_prefix_of
IsPrefixOf(mapping_path, other) ==
    IF ~EndsWithSlash(mapping_path) THEN FALSE ELSE StartsWith(other, mapping_path)

\* Every handler that is not a proxy described alike.
DescribeHandlerTargetProxyOnly(handler) ==
    IF IsSome(handler.proxy) THEN Unwrap(handler.proxy) ELSE "non-proxy handler"

\* describe_handler_target; the file-system path of a path handler is not
\* kept in the description here, no target of the model equals it either way.
DescribeHandlerTarget(handler) ==
    IF IsSome(handler.proxy) THEN Unwrap(handler.proxy)
    ELSE IF IsSome(handler.path) THEN "path handler"
    ELSE IF IsSome(handler.text) THEN "text handler"
    ELSE "non-proxy handler"

\* The verdicts of detect_conflicts.
NoConflict == [kind |-> "None", path |-> None, target |-> ""]
Idempotent == [kind |-> "Idempotent", path |-> None, target |-> ""]
\* A conflict that names the proposal where it should name the existing handler.
ConflictOfProposal(kind, existing, new_path, new_target) ==
    [kind |-> kind, path |-> Some(new_path), target |-> new_target,
     new_path |-> new_path, new_target |-> new_target]

ConflictOf(kind, existing, new_path, new_target) ==
    [kind |-> kind, path |-> Some(existing.path), target |-> existing.target,
     new_path |-> new_path, new_target |-> new_target]
IsConflict(verdict) == verdict.kind \notin {"None", "Idempotent"}

\* The funnel flags left out of the verdict.
SameTargetVerdictIgnoresFunnel(existing_funnel_enabled, funnel_enabled) == Idempotent

\* detect_conflicts on an existing handler with the proposed path and target.
SameTargetVerdict(existing_funnel_enabled, funnel_enabled) ==
    IF existing_funnel_enabled /\ funnel_enabled THEN Idempotent ELSE NoConflict

\* The loop of detect_conflicts over existing_mappings, first match wins.
RECURSIVE ScanMappings(_, _, _, _, _)
ScanMappings(existing_mappings, new_path, new_target, existing_funnel_enabled, funnel_enabled) ==
    IF existing_mappings = << >> THEN NoConflict
    ELSE LET existing == Head(existing_mappings) IN
         IF existing.path = new_path THEN
             IF existing.target = new_target THEN
                 SameTargetVerdict(existing_funnel_enabled, funnel_enabled)
             ELSE ConflictOf("ExactPathDifferentTarget", existing, new_path, new_target)
         ELSE IF IsPrefixOf(existing.path, new_path) THEN
             ConflictOf("CapturedByExistingPrefix", existing, new_path, new_target)
         ELSE IF IsPrefixOf(new_path, existing.path) THEN
             ConflictOf("NewPrefixCapturesExisting", existing, new_path, new_target)
         ELSE ScanMappings(Tail(existing_mappings), new_path, new_target,
                           existing_funnel_enabled, funnel_enabled)

\* The orders in which a HashMap with key set S may be iterated.
Orders(S) ==
    {o \in [1..Cardinality(S) -> S] : \A i, j \in 1..Cardinality(S) : o[i] = o[j] => i = j}

\* detect_conflicts under one iteration order of the handler map.
DetectConflictsIn(config, host_port, new_path, new_target, funnel_enabled, order) ==
    LET handlers == Unwrap(GetHandlers(config, host_port))
        existing_funnel_enabled == IsFunnelEnabled(config, host_port)
        existing_mappings ==
            [i \in 1..Len(order) |->
                [path |-> order[i],
                 target |-> DescribeHandlerTarget(handlers[order[i]]),
                 funnel_enabled |-> existing_funnel_enabled]]
    IN ScanMappings(existing_mappings, new_path, new_target,
                    existing_funnel_enabled, funnel_enabled)

\* detect_conflicts: every verdict some iteration order of the map produces.
DetectConflicts(config, host_port, new_path, new_target, funnel_enabled) ==
    IF ~IsSome(GetHandlers(config, host_port)) THEN {NoConflict}
    ELSE {DetectConflictsIn(config, host_port, new_path, new_target, funnel_enabled, o) :
            o \in Orders(DOMAIN Unwrap(GetHandlers(config, host_port)))}

\* The session's nested document replaced by a fresh one holding the route.
ApplyPatchFreshSession(config, session_id, host_port, path, target, funnel_enabled) ==
    LET foreground == IF IsSome(config.foreground) THEN Unwrap(config.foreground) ELSE EmptyMap
        web_config ==
            [NewWebServerConfig EXCEPT !.handlers = Some(Put(EmptyMap, path, NewProxy(target)))]
        session2 ==
            [NewServeConfig EXCEPT
                !.web = Some(Put(EmptyMap, host_port, web_config)),
                !.allow_funnel =
                    IF funnel_enabled THEN Some(Put(EmptyMap, host_port, TRUE)) ELSE @]
    IN [config EXCEPT !.foreground = Some(Put(foreground, session_id, session2))]

\* apply_patch: foreground[session_id].web[host_port].handlers[path] := proxy,
\* and allow_funnel[host_port] := true in that nested document when enabled.
ApplyPatch(config, session_id, host_port, path, target, funnel_enabled) ==
    LET foreground == IF IsSome(config.foreground) THEN Unwrap(config.foreground) ELSE EmptyMap
        session_config ==
            IF session_id \in DOMAIN foreground THEN foreground[session_id] ELSE NewServeConfig
        web == IF IsSome(session_config.web) THEN Unwrap(session_config.web) ELSE EmptyMap
        web_config == IF host_port \in DOMAIN web THEN web[host_port] ELSE NewWebServerConfig
        handlers ==
            IF IsSome(web_config.handlers) THEN Unwrap(web_config.handlers) ELSE EmptyMap
        handlers2 == Put(handlers, path, NewProxy(target))
        web2 == Put(web, host_port, [web_config EXCEPT !.handlers = Some(handlers2)])
        allow_funnel ==
            IF IsSome(session_config.allow_funnel)
            THEN Unwrap(session_config.allow_funnel) ELSE EmptyMap
        session2 ==
            [session_config EXCEPT
                !.web = Some(web2),
                !.allow_funnel =
                    IF funnel_enabled THEN Some(Put(allow_funnel, host_port, TRUE)) ELSE @]
    IN [config EXCEPT !.foreground = Some(Put(foreground, session_id, session2))]


\* Every path reported as removed.
RemovedFlagAlways(handlers, path) == TRUE

\* handlers.remove(path).is_some()
RemovedFlag(handlers, path) == path \in DOMAIN handlers

\* An emptied handler map left in place.
PruneHandlersKeepsEmpty(handlers) == Some(handlers)

\* if handlers.is_empty() { web_config.handlers = None }
PruneHandlers(handlers) == IF DOMAIN handlers = {} THEN None ELSE Some(handlers)

\* The result of remove_patch when there is nothing to remove.
NothingRemoved(config) == [config |-> config, removed |-> FALSE]

\* remove_patch: the document it leaves and the flag it returns.
RemovePatch(config, session_id, host_port, path) ==
    IF ~IsSome(config.foreground) THEN NothingRemoved(config)
    ELSE IF session_id \notin DOMAIN Unwrap(config.foreground) THEN NothingRemoved(config)
    ELSE IF ~IsSome(Unwrap(config.foreground)[session_id].web) THEN NothingRemoved(config)
    ELSE IF host_port \notin DOMAIN Unwrap(Unwrap(config.foreground)[session_id].web)
        THEN NothingRemoved(config)
    ELSE IF ~IsSome(Unwrap(Unwrap(config.foreground)[session_id].web)[host_port].handlers)
        THEN NothingRemoved(config)
    ELSE
        LET foreground == Unwrap(config.foreground)
            session_config == foreground[session_id]
            web == Unwrap(session_config.web)
            web_config == web[host_port]
            handlers == Unwrap(web_config.handlers)
            web_config2 == [web_config EXCEPT !.handlers = PruneHandlers(Without(handlers, path))]
            web2 ==
                IF ~IsSome(web_config2.handlers) /\ DOMAIN web_config2.unknown = {}
                THEN Without(web, host_port)
                ELSE Put(web, host_port, web_config2)
            session2 ==
                [session_config EXCEPT !.web = IF DOMAIN web2 = {} THEN None ELSE Some(web2)]
        IN [config |-> [config EXCEPT !.foreground = Some(Put(foreground, session_id, session2))],
            removed |-> RemovedFlag(handlers, path)]

\* ------------------------------------------------- documents as JSON values

\* A JSON object is a function from its field names.  A JSON scalar is a
\* string of the model; the scalars below stand for JSON numbers.
Numbers == {"#42"}

Restrict(object, keys) == [k \in keys |-> object[k]]
Merge(a, b) == [k \in (DOMAIN a) \cup (DOMAIN b) |-> IF k \in DOMAIN a THEN a[k] ELSE b[k]]

\* A field of type Option<T> read from an object.
Field(object, name) == IF name \in DOMAIN object THEN Some(object[name]) ELSE None

\* skip_serializing_if = "Option::is_none"
OptionalField(name, option) ==
    IF IsSome(option) THEN [k \in {name} |-> Unwrap(option)] ELSE EmptyMap

\* The field names serde gives the structures (rename_all = "PascalCase").
ServeConfigFields == {"Tcp", "Web", "AllowFunnel", "Foreground"}
WebServerConfigFields == {"Handlers"}
HttpHandlerFields == {"Proxy", "Path", "Text"}

\* Deserialize for HttpHandler: the fields it knows are Option<String>.
HttpHandlerParses(value) ==
    \A k \in (DOMAIN value) \cap HttpHandlerFields : value[k] \notin Numbers

HttpHandlerFromValue(value) ==
    [proxy |-> Field(value, "Proxy"), path |-> Field(value, "Path"),
     text |-> Field(value, "Text"),
     unknown |-> Restrict(value, (DOMAIN value) \ HttpHandlerFields)]

\* Serialize for HttpHandler without the flattened map.
HttpHandlerToValueKnownOnly(handler) ==
    Merge(OptionalField("Proxy", handler.proxy),
          Merge(OptionalField("Path", handler.path), OptionalField("Text", handler.text)))

\* Serialize for HttpHandler
HttpHandlerToValue(handler) ==
    Merge(OptionalField("Proxy", handler.proxy),
          Merge(OptionalField("Path", handler.path),
                Merge(OptionalField("Text", handler.text), handler.unknown)))

\* Deserialize for WebServerConfig
WebServerConfigParses(value) ==
    "Handlers" \in DOMAIN value =>
        \A p \in DOMAIN value["Handlers"] : HttpHandlerParses(value["Handlers"][p])

WebServerConfigFromValue(value) ==
    [handlers |->
        IF "Handlers" \in DOMAIN value
        THEN Some([p \in DOMAIN value["Handlers"] |-> HttpHandlerFromValue(value["Handlers"][p])])
        ELSE None,
     unknown |-> Restrict(value, (DOMAIN value) \ WebServerConfigFields)]

\* Serialize for WebServerConfig
WebServerConfigToValue(web_config) ==
    Merge(OptionalField("Handlers",
              IF IsSome(web_config.handlers)
              THEN Some([p \in DOMAIN Unwrap(web_config.handlers) |->
                            HttpHandlerToValue(Unwrap(web_config.handlers)[p])])
              ELSE None),
          web_config.unknown)

\* Deserialize for ServeConfig; foreground keeps each session's value as it is.
ServeConfigParses(value) ==
    "Web" \in DOMAIN value =>
        \A hp \in DOMAIN value["Web"] : WebServerConfigParses(value["Web"][hp])

ServeConfigFromValue(value) ==
    [tcp |-> Field(value, "Tcp"),
     web |->
        IF "Web" \in DOMAIN value
        THEN Some([hp \in DOMAIN value["Web"] |-> WebServerConfigFromValue(value["Web"][hp])])
        ELSE None,
     allow_funnel |-> Field(value, "AllowFunnel"),
     foreground |-> Field(value, "Foreground"),
     unknown |-> Restrict(value, (DOMAIN value) \ ServeConfigFields)]

\* Serialize for ServeConfig
ServeConfigToValue(config) ==
    Merge(OptionalField("Tcp", config.tcp),
          Merge(OptionalField("Web",
                    IF IsSome(config.web)
                    THEN Some([hp \in DOMAIN Unwrap(config.web) |->
                                  WebServerConfigToValue(Unwrap(config.web)[hp])])
                    ELSE None),
                Merge(OptionalField("AllowFunnel", config.allow_funnel),
                      Merge(OptionalField("Foreground", config.foreground), config.unknown))))

\* The parsed sessions of a foreground map, and their values again.  The
\* documents of this model hold a session's nested configuration in parsed
\* form, as detect_conflicts and apply_patch read it.
SessionsFromValues(foreground) ==
    IF IsSome(foreground)
    THEN Some([s \in DOMAIN Unwrap(foreground) |-> ServeConfigFromValue(Unwrap(foreground)[s])])
    ELSE None

SessionsToValues(foreground) ==
    IF IsSome(foreground)
    THEN Some([s \in DOMAIN Unwrap(foreground) |-> ServeConfigToValue(Unwrap(foreground)[s])])
    ELSE None

\* value_to_config, and the parse of the sessions' values
ValueToConfig(value) ==
    [ServeConfigFromValue(value) EXCEPT !.foreground = SessionsFromValues(@)]

\* serde_json::to_value(&config), after the sessions' values were written back
ConfigToValue(config) ==
    ServeConfigToValue([config EXCEPT !.foreground = SessionsToValues(@)])

\* ------------------------------------------------------------- event stream

\* Lines of the event stream before it ends.
MaxLines == 3

\* A line of the event stream: blank, not JSON, JSON that is not an object,
\* an object with its fields, or longer than the codec reads.
Line(kind, fields) == [kind |-> kind, fields |-> fields]

StreamLines ==
    { Line("blank", EmptyMap),
      Line("garbage", EmptyMap),
      Line("scalar", EmptyMap),
      Line("too_long", EmptyMap),
      Line("event", [Version |-> "1.62.0"]),
      Line("event", [SessionID |-> "s1"]),
      Line("event", [session_id |-> "s2"]),
      Line("event", [sessionId |-> "s1", State |-> "#42"]),
      Line("event", [SessionID |-> "", session_id |-> "s2"]),
      Line("event", [SessionID |-> "#42", sessionId |-> "s2"]) }

\* RECURSIVE: the sequences over a set up to a length.
RECURSIVE SeqsUpTo(_, _)
SeqsUpTo(S, n) ==
    IF n = 0 THEN {<< >>}
    ELSE SeqsUpTo(S, n - 1) \cup
         {Append(q, x) : q \in {t \in SeqsUpTo(S, n - 1) : Len(t) = n - 1}, x \in S}

Streams == SeqsUpTo(StreamLines, MaxLines)

\* value.get(name).and_then(Value::as_str)
AsStr(line, name) ==
    IF line.kind = "event" /\ name \in DOMAIN line.fields /\ line.fields[name] \notin Numbers
    THEN Some(line.fields[name])
    ELSE None

\* parse_session_id on a line that is JSON: the first spelling that holds a
\* string, kept when it is not empty.
ParseSessionId(line) ==
    LET found ==
            IF IsSome(AsStr(line, "SessionID")) THEN AsStr(line, "SessionID")
            ELSE IF IsSome(AsStr(line, "session_id")) THEN AsStr(line, "session_id")
            ELSE AsStr(line, "sessionId")
    IN IF IsSome(found) /\ Unwrap(found) # "" THEN found ELSE None

\* What watch_ipn_bus returns: the handle with the session id, or an error.
WatchOk(id) == [kind |-> "Ok", id |-> id]
WatchError(kind) == [kind |-> kind, id |-> ""]

\* The end of the stream taken for a session with an empty id.
EndOfStreamEmptyId == WatchOk("")

\* session_id.ok_or(LocalApiError::MissingSessionId)
EndOfStream == WatchError("MissingSessionId")

\* watch_ipn_bus on the lines of an answered request.
RECURSIVE WatchIpnBus(_)
WatchIpnBus(stream) ==
    IF stream = << >> THEN EndOfStream
    ELSE IF Head(stream).kind = "too_long" THEN WatchError("Io")
    ELSE IF Head(stream).kind = "blank" THEN WatchIpnBus(Tail(stream))
    ELSE IF Head(stream).kind = "garbage" THEN WatchError("Json")
    ELSE IF IsSome(ParseSessionId(Head(stream))) THEN WatchOk(Unwrap(ParseSessionId(Head(stream))))
    ELSE WatchIpnBus(Tail(stream))

\* The session ids watch_ipn_bus may return.
StreamIds == {WatchIpnBus(s).id : s \in {t \in Streams : WatchIpnBus(t).kind = "Ok"}}

\* The errors watch_ipn_bus may return once the request was answered.
StreamErrors ==
    {[kind |-> WatchIpnBus(s).kind, status |-> 200] :
        s \in {t \in Streams : WatchIpnBus(t).kind # "Ok"}}

\* ------------------------------------------------------------ stream handle

\* Backend::remove called this many times on one backend.
MaxRemoves == 2

\* A WatchIpnBus with its drain task: drain_task is the Option the handle
\* holds, task the state of the task itself.
Handle(drain_task_field, task) == [drain_task |-> drain_task_field, task |-> task]

\* A cancellation that does not reach the task.
AbortLeavesRunning(task) == task

\* JoinHandle::abort: a task that has finished is left as it is.
Abort(task) == IF task = "running" THEN "aborted" ELSE task

\* WatchIpnBus::close
Close(handle) ==
    IF IsSome(handle.drain_task)
    THEN Handle(None, Abort(handle.task))
    ELSE handle

\* Drop for WatchIpnBus
Drop(handle) == Close(handle)

\* A teardown that writes the document back.
RemoveRequestsWriteBack == << [op |-> "post", status |-> 200] >>

\* The LocalAPI requests Backend::remove sends: none.
RemoveRequests == << >>

\* ------------------------------------------------------------- validation

\* Longest path the model hands to validate_path.
MaxPathLen == 8

\* The characters of the model's paths: the slash, the dot, a letter and a
\* control character (the tab).
PathChars == {"/", ".", "a", "TAB"}

\* The byte of a character.
Byte(ch) == IF ch = "TAB" THEN 9 ELSE IF ch = "." THEN 46 ELSE IF ch = "/" THEN 47 ELSE 97

\* Bytes below this one are control characters.
ControlLimit == 32

\* A normalized path shorter than this gets the PathTooShort warning.
ShortPathLen == 8

\* Duration: whole seconds and the nanoseconds beyond them.
Duration(secs, nanos) == [secs |-> secs, nanos |-> nanos]

\* Duration::from_secs
FromSecs(secs) == Duration(secs, 0)

\* Ord on Duration
DurationLess(a, b) == a.secs < b.secs \/ (a.secs = b.secs /\ a.nanos < b.nanos)

\* MIN_TTL and WARN_TTL of validate_ttl, in seconds.
MinTtlSecs == 30
WarnTtlSecs == 300

InvalidArgument(context) == Error("InvalidArgument", context)

\* The warnings of validation.
PathTooShort(path) == [warning |-> "PathTooShort", path |-> path, length |-> Len(path)]
TtlTooShort(d) == [warning |-> "TtlTooShort", ttl |-> d]

\* path.split('/'): the segments between the slashes, empty ones included.
RECURSIVE SplitSlash(_)
SplitSlash(path) ==
    IF \A i \in 1..Len(path) : path[i] # "/" THEN << path >>
    ELSE LET i == CHOOSE k \in 1..Len(path) :
                     path[k] = "/" /\ \A j \in 1..(k - 1) : path[j] # "/"
         IN << SubSeq(path, 1, i - 1) >> \o SplitSlash(SubSeq(path, i + 1, Len(path)))

\* A path refused when ".." occurs anywhere in it.
HasDotDotAnywhere(path) ==
    \E i \in 1..(Len(path) - 1) : path[i] = "." /\ path[i + 1] = "."

\* The loop over path.split('/'): some segment is "..".
HasDotDotSegment(path) ==
    \E i \in 1..Len(SplitSlash(path)) : SplitSlash(path)[i] = << ".", "." >>

\* normalize_slashes, from a position on, with prev_was_slash.
RECURSIVE NormalizeFrom(_, _)
NormalizeFrom(path, prev_was_slash) ==
    IF path = << >> THEN << >>
    ELSE IF Head(path) = "/"
         THEN (IF prev_was_slash THEN << >> ELSE << "/" >>) \o NormalizeFrom(Tail(path), TRUE)
         ELSE << Head(path) >> \o NormalizeFrom(Tail(path), FALSE)

\* The path with its slashes left as they are.
NormalizeSlashesKept(path) == path

\* normalize_slashes
NormalizeSlashes(path) == NormalizeFrom(path, FALSE)

\* validate_path: the error, the normalized path and the warnings.
ValidatePath(path) ==
    IF ~(Len(path) > 0 /\ path[1] = "/")
        THEN [error |-> InvalidArgument("path must start with '/'"),
              normalized_path |-> None, warnings |-> << >>]
    ELSE IF \E i \in 1..Len(path) : Byte(path[i]) < ControlLimit
        THEN [error |-> InvalidArgument("path contains control characters"),
              normalized_path |-> None, warnings |-> << >>]
    ELSE IF HasDotDotSegment(path)
        THEN [error |-> InvalidArgument("path cannot contain '..' segments"),
              normalized_path |-> None, warnings |-> << >>]
    ELSE LET has_trailing_slash == path[Len(path)] = "/" /\ Len(path) > 1
             normalized == NormalizeSlashes(path)
             normalized_path ==
                 IF has_trailing_slash /\ normalized[Len(normalized)] # "/"
                 THEN normalized \o << "/" >> ELSE normalized
         IN [error |-> NoError,
             normalized_path |-> Some(normalized_path),
             warnings |-> IF Len(normalized_path) < ShortPathLen
                          THEN << PathTooShort(normalized_path) >> ELSE << >>]

\* The warning given up to and including five minutes.
WarnsUpToLimit(d) == ~DurationLess(FromSecs(WarnTtlSecs), d)

\* ttl < WARN_TTL
Warns(d) == DurationLess(d, FromSecs(WarnTtlSecs))

\* validate_ttl: the error, the TTL and the warnings.
ValidateTtl(d) ==
    IF DurationLess(d, FromSecs(MinTtlSecs))
    THEN [error |-> InvalidArgument("TTL must be at least 30 seconds"),
          ttl |-> None, warnings |-> << >>]
    ELSE [error |-> NoError, ttl |-> Some(d),
          warnings |-> IF Warns(d) THEN << TtlTooShort(d) >> ELSE << >>]

\* validate_port
ValidatePort(port) ==
    IF port = 0 THEN InvalidArgument("port must be between 1 and 65535") ELSE NoError

\* validate_https_port
ValidateHttpsPort(port) ==
    IF port \notin {443, 8443, 10000}
    THEN InvalidArgument("HTTPS port must be one of the allowed ports") ELSE NoError

\* ------------------------------------------------------------ daemon status

\* A version string split at '.' and '-': its parts, a part that is not a
\* number being -1.  "1.50.0" is <<1, 50, 0>>, "1.62.0-pre" is <<1, 62, 0, -1>>,
\* "1.50" is <<1, 50>>, "unstable" is <<-1>>.
VersionStrings ==
    { <<1, 50, 0>>, <<1, 62, 0, -1>>, <<1, 50>>, <<1, 49, 9>>, <<0, 99, 0>>,
      <<1>>, <<-1>>, <<1, -1, 0>>, <<1, 50, -1>> }

\* A minimum set one minor version too low.
MinSupportedVersionTooLow == <<1, 49, 0>>

MinSupportedVersion == <<1, 50, 0>>

\* parse_version: Option<(major, minor, patch)>
ParseVersion(version) ==
    IF Len(version) < 2 THEN None
    ELSE IF version[1] < 0 \/ version[2] < 0 THEN None
    ELSE IF Len(version) >= 3 /\ version[3] < 0 THEN None
    ELSE Some(<< version[1], version[2], IF Len(version) >= 3 THEN version[3] ELSE 0 >>)

\* Ord on (u32, u32, u32): lexicographic
TupleLess(a, b) ==
    \/ a[1] < b[1]
    \/ a[1] = b[1] /\ a[2] < b[2]
    \/ a[1] = b[1] /\ a[2] = b[2] /\ a[3] < b[3]


\* ensure_version_supported
EnsureVersionSupported(version) ==
    IF ~IsSome(version) THEN Error("VersionTooOld", "tailscaled version missing")
    ELSE IF ~IsSome(ParseVersion(Unwrap(version)))
        THEN Error("VersionTooOld", "Unsupported tailscaled version")
    ELSE IF TupleLess(Unwrap(ParseVersion(Unwrap(version))), MinSupportedVersion)
        THEN Error("VersionTooOld", "tailscaled version is not supported")
    ELSE NoError

\* version_supported of the doctor: a part that is missing or not a number
\* counts as 0, and the triple is compared with (1, 50, 0).
VersionSupported(version) ==
    LET part(i) == IF Len(version) >= i /\ version[i] >= 0 THEN version[i] ELSE 0
    IN ~TupleLess(<< part(1), part(2), part(3) >>, << 1, 50, 0 >>)

\* The prerequisite checks of apply on the fetched BackendStatus, in order.
ValidatePrerequisites(status) ==
    IF EnsureVersionSupported(status.version) # NoError
        THEN EnsureVersionSupported(status.version)
    ELSE IF ~IsSome(status.dns_name)
        THEN Error("Prerequisites", "Node not yet assigned DNS name")
    ELSE IF status.https_enabled # Some(TRUE)
        THEN Error("Prerequisites", "HTTPS not enabled")
    ELSE IF status.funnel_enabled # Some(TRUE)
        THEN Error("Prerequisites", "Funnel not enabled in tailnet policy")
    ELSE NoError

\* DNS names a status may carry; the empty name is what a node reports
\* before it is given one.
NodeName == "node.tail.ts.net"
DnsNames == {NodeName, ""}

\* The default port of https, and the other port the model serves on.
HttpsPort == 443
AltHttpsPort == 8443

\* A URL: scheme, host, the port when it is written out, path.
Url(host, port, path) == [scheme |-> "https", host |-> host, port |-> port, path |-> path]

\* A URL that always carries its port.
BuildUrlWithPort(dns_name, https_port, path) ==
    IF dns_name = "" THEN None ELSE Some(Url(dns_name, Some(https_port), path))

\* build_url: "https://<dns_name>" for port 443 and "https://<dns_name>:<port>"
\* otherwise, then set_path; Url::parse fails on an empty host.
BuildUrl(dns_name, https_port, path) ==
    IF dns_name = "" THEN None
    ELSE Some(Url(dns_name, IF https_port = 443 THEN None ELSE Some(https_port), path))

\* fetch_status results the model draws from: three that pass every
\* prerequisite and the ones that fail one.
GoodStatus ==
    [version |-> Some(<<1, 50, 0>>), dns_name |-> Some(NodeName),
     https_enabled |-> Some(TRUE), funnel_enabled |-> Some(TRUE)]
Statuses ==
    { GoodStatus,
      [GoodStatus EXCEPT !.version = Some(<<1, 62, 0, -1>>)],
      [GoodStatus EXCEPT !.dns_name = Some("")] }
    \cup {[GoodStatus EXCEPT !.version = Some(v)] : v \in VersionStrings}
    \cup {[GoodStatus EXCEPT !.version = None, !.dns_name = None]}
    \cup {[GoodStatus EXCEPT !.dns_name = None, !.https_enabled = Some(FALSE)]}
    \cup {[GoodStatus EXCEPT !.https_enabled = h, !.funnel_enabled = f] :
            h \in {None, Some(FALSE), Some(TRUE)}, f \in {None, Some(FALSE), Some(TRUE)}}

\* ----------------------------------------------------------- transport errors

\* LocalApiError values a request may end with.
HttpStatus(code) == [kind |-> "HttpStatus", status |-> code]
TransportErrors ==
    { [kind |-> "Http", status |-> 0], [kind |-> "Io", status |-> 0],
      [kind |-> "Json", status |-> 0],
      HttpStatus(401), HttpStatus(404), HttpStatus(500),
      HttpStatus(412), HttpStatus(409) }

\* map_transport_error
MapTransportError(err) ==
    IF err.kind = "HttpStatus" THEN
        IF err.status = 401 \/ err.status = 403
            THEN Error("Permission", "LocalAPI auth rejected")
        ELSE IF err.status = 404
            THEN Error("VersionTooOld", "LocalAPI endpoint not found")
        ELSE Error("ApplyFailed", "LocalAPI request failed with status")
    ELSE IF err.kind \in {"PasswordPermissions", "PasswordRead", "EmptyPasswordFile"}
        THEN Error("InvalidArgument", "LocalAPI password file")
    ELSE IF err.kind = "MissingSessionId"
        THEN Error("ApplyFailed", "watch-ipn-bus did not provide a session id")
    ELSE IF err.kind = "Io" THEN Error("Unreachable", "LocalAPI unreachable")
    ELSE IF err.kind = "Json" THEN Error("ApplyFailed", "Failed to parse LocalAPI JSON")
    ELSE IF err.kind = "Http" THEN Error("ApplyFailed", "LocalAPI request failed")
    ELSE Error("ApplyFailed", "LocalAPI response error")


\* ------------------------------------------------------------ password file

\* The password file on disk.  Its contents are a sequence of tokens: the
\* secret, then line ends.
PasswordFile(exists, mode, readable, contents) ==
    [exists |-> exists, mode |-> mode, readable |-> readable, contents |-> contents]

FileStates ==
    { PasswordFile(TRUE, "0600", TRUE, << "k1" >>),
      PasswordFile(TRUE, "0600", TRUE, << "k2", "\n" >>),
      PasswordFile(TRUE, "0600", TRUE, << "k3", "\r", "\n" >>),
      PasswordFile(TRUE, "0600", TRUE, << "\n" >>),
      PasswordFile(TRUE, "0644", TRUE, << "k2" >>),
      PasswordFile(TRUE, "0600", FALSE, << "k2" >>),
      PasswordFile(FALSE, "0600", FALSE, << >>) }

\* str::trim_end_matches(['\r', '\n'])
RECURSIVE TrimEndMatches(_)
TrimEndMatches(contents) ==
    IF contents # << >> /\ contents[Len(contents)] \in {"\r", "\n"}
    THEN TrimEndMatches(SubSeq(contents, 1, Len(contents) - 1))
    ELSE contents

\* read_password_file: [err, password]; err is "" when the read succeeds.
ReadPasswordFile(file) ==
    IF ~file.exists THEN [err |-> "Io", password |-> << >>]
    ELSE IF file.mode # "0600" THEN [err |-> "PasswordPermissions", password |-> << >>]
    ELSE IF ~file.readable THEN [err |-> "PasswordRead", password |-> << >>]
    ELSE IF TrimEndMatches(file.contents) = << >>
        THEN [err |-> "EmptyPasswordFile", password |-> << >>]
    ELSE [err |-> "", password |-> TrimEndMatches(file.contents)]

\* ------------------------------------------------------------------- state

VARIABLES
    doc,         \* daemon: the serving configuration document
    rev,         \* daemon: its revision, sent as the entity tag
    spec,        \* apply's argument, the TunnelSpec
    force,       \* LocalApiBackend.force
    pc,          \* where apply is
    attempt,     \* apply: the loop counter
    session_id,  \* apply: Option, the id read from the event stream
    status,      \* apply: Option, the BackendStatus fetched
    etag,        \* apply: Option, the entity tag of this attempt's read
    config,      \* apply: the fetched document, patched, of this attempt
    result,      \* apply: the error it returned, or NoError
    lease,       \* apply: Option, the TunnelResult it returned
    watch,       \* LocalApiBackend.watch: Option, the stored stream handle
    drain,       \* the drain task of the stream handle: none, running, finished, aborted
    drain_task,  \* WatchIpnBus.drain_task: Option, the handle on the drain task
    log,         \* history: the requests apply has issued and their answers
    fetched,     \* history: Option, what the latest serve-config read returned
    written,     \* history: Option, the latest serve-config write and its answer
    secret_file, \* TCP channel: the password file on disk
    password,    \* TcpAuthTransport.password, the stored secret
    tpc,         \* TCP channel: where send is
    sends,       \* history: the attempts of the current request
    responses,   \* history: the status of every answer to the current request
    rereads,     \* history: reads of the password file by the current request
    outcome,     \* TCP channel: what the last request returned to the caller
    requests,    \* requests started on the TCP channel
    rotations,   \* times the password file was changed on disk
    last_read,   \* history: the secret the latest successful file read returned
    given,       \* patch engine: the ServeConfig handed to it
    proposal,    \* patch engine: the proposed session, host:port, path, target, funnel
    verdict,     \* patch engine: Option, what detect_conflicts returned
    patched,     \* patch engine: Option, the ServeConfig apply_patch left
    removed,     \* patch engine: Option, what remove_patch was given, left and returned
    document,    \* serde: the JSON document handed to the parser
    reserialized,\* serde: Option, the JSON document serialized again
    lines,       \* event stream: the lines the daemon sends before it ends
    watched,     \* event stream: Option, what watch_ipn_bus returned
    removes,     \* history: calls of Backend::remove so far
    remove_result, \* Option, what the latest Backend::remove returned
    opc,         \* open command: where each instance is
    lock_owner,  \* the lock file: Option, the instance holding the exclusive lock
    lock_file,   \* the lock file: Option, the process id written in it
    seen_pid,    \* LockGuard::acquire: Option, the process id each instance read
    ttl,         \* open command: whether each instance was given a TTL
    stop_reason, \* open command: Option, what ended each instance's wait
    cleaned,     \* open command: whether each instance's Backend::remove completed
    events,      \* open command: the events each instance has emitted
    signals,     \* history: interrupts delivered to each instance
    args,        \* command line: the arguments the command was started with
    validated,   \* command line: Option, what the command made of its arguments
    racers       \* concurrent applies: each session's position, read and patch

applyVars ==
    << doc, rev, spec, force, pc, attempt, session_id, status, etag, config,
       result, lease, watch, drain, drain_task, log, fetched, written >>

tcpVars ==
    << secret_file, password, tpc, sends, responses, rereads, outcome, requests,
       rotations, last_read >>

engineVars == << given, proposal, verdict, patched, removed, document, reserialized >>

streamVars == << lines, watched >>

teardownVars == << removes, remove_result >>

openVars ==
    << opc, lock_owner, lock_file, seen_pid, ttl, stop_reason, cleaned, events, signals >>

checkVars == << args, validated >>

raceVars == << racers >>

commandVars == << streamVars, teardownVars, openVars, checkVars, raceVars >>

vars == << applyVars, tcpVars, engineVars, commandVars >>

\* The TCP channel at rest: nothing sent, nothing stored yet.
TcpIdle ==
    /\ secret_file = PasswordFile(FALSE, "0600", FALSE, << >>)
    /\ password = << >>
    /\ tpc = "Off"
    /\ sends = << >>
    /\ responses = << >>
    /\ rereads = 0
    /\ outcome = NoError
    /\ requests = 0
    /\ rotations = 0
    /\ last_read = << >>

daemonVars == << doc, rev >>
inputVars == << spec, force >>

\* The session id the daemon gives this client's stream, and another client's.
OwnSession == "s1"
OtherSession == "s2"

\* format!("{}:{}", dns_name, spec.https_port)
HostPort(dns_name, https_port) == << dns_name, https_port >>

\* The host:port the other clients of the model serve on.
NodeHostPort == HostPort(NodeName, HttpsPort)

\* A top-level document with one handler at the node's host:port.
WithTopHandler(d, path, handler, funnel) ==
    LET web == IF IsSome(d.web) THEN Unwrap(d.web) ELSE EmptyMap
        wc == IF NodeHostPort \in DOMAIN web THEN web[NodeHostPort] ELSE NewWebServerConfig
        hs == IF IsSome(wc.handlers) THEN Unwrap(wc.handlers) ELSE EmptyMap
    IN [d EXCEPT
          !.web = Some(Put(web, NodeHostPort, [wc EXCEPT !.handlers = Some(Put(hs, path, handler))])),
          !.allow_funnel = IF funnel THEN Some(Put(EmptyMap, NodeHostPort, TRUE)) ELSE @]

\* Documents the daemon may hold when apply starts.
InitialDocs ==
    { NewServeConfig,
      WithTopHandler([NewServeConfig EXCEPT !.unknown = Put(EmptyMap, "Services", "svc")],
                     PathAB, NewProxy(Target1), TRUE) }

\* What another local client may turn the document into with one write.
OtherWrites(d) ==
    {ApplyPatch(d, OtherSession, NodeHostPort, m[1], m[2], m[3]) :
        m \in {<< PathA, Target2, TRUE >>, << PathADir, Target2, FALSE >>,
               << PathAB, Target1, FALSE >>}}
    \cup {WithTopHandler(d, PathADir, TextHandler("hello"), FALSE)}
    \cup (IF IsSome(d.foreground) /\ OtherSession \in DOMAIN Unwrap(d.foreground)
          THEN {[d EXCEPT !.foreground = Some(Without(Unwrap(d.foreground), OtherSession))]}
          ELSE {})

\* The patch engine before it is called.
EngineIdle ==
    /\ given = NewServeConfig
    /\ proposal = [session_id |-> OwnSession, host_port |-> NodeHostPort, path |-> PathA,
                   target |-> Target1, funnel |-> TRUE]
    /\ verdict = None
    /\ patched = None
    /\ removed = None
    /\ document = EmptyMap
    /\ reserialized = None

\* The instances of the tool, named by their process ids.
Procs == {"p1", "p2"}

\* Nothing read from an event stream.
StreamIdle ==
    /\ lines = << >>
    /\ watched = None

\* Backend::remove never called.
TeardownIdle ==
    /\ removes = 0
    /\ remove_result = None

\* No instance of the open command started, the lock file not there.
OpenIdle ==
    /\ opc = [p \in Procs |-> "Start"]
    /\ lock_owner = None
    /\ lock_file = None
    /\ seen_pid = [p \in Procs |-> None]
    /\ ttl = [p \in Procs |-> FALSE]
    /\ stop_reason = [p \in Procs |-> None]
    /\ cleaned = [p \in Procs |-> FALSE]
    /\ events = [p \in Procs |-> << >>]
    /\ signals = [p \in Procs |-> 0]

\* No command line handed over.
CheckIdle ==
    /\ args = None
    /\ validated = None

\* No concurrent applies.
RaceIdle == racers = << >>

CommandIdle == StreamIdle /\ TeardownIdle /\ OpenIdle /\ CheckIdle /\ RaceIdle

\* apply's own state when it is called.
ApplyStart ==
    /\ pc = "OpeningStream"
    /\ attempt = 0
    /\ session_id = None
    /\ status = None
    /\ etag = None
    /\ config = NewServeConfig
    /\ result = NoError
    /\ lease = None
    /\ watch = None
    /\ drain = "none"
    /\ drain_task = None
    /\ log = << >>
    /\ fetched = None
    /\ written = None

Init ==
    /\ doc \in InitialDocs
    /\ rev = 1
    /\ spec \in [local_target : {Target1}, https_port : {HttpsPort},
                 path : Paths, funnel : BOOLEAN]
               \cup {[local_target |-> Target1, https_port |-> AltHttpsPort,
                      path |-> PathA, funnel |-> TRUE]}
    /\ force \in BOOLEAN
    /\ ApplyStart
    /\ TcpIdle
    /\ EngineIdle
    /\ CommandIdle

\* apply returns Err(err) before the handle is stored: its locals are dropped,
\* and dropping the WatchIpnBus closes it, which aborts the drain task.
Fail(err) ==
    /\ pc' = "Failed"
    /\ result' = err
    /\ etag' = None
    /\ config' = NewServeConfig
    /\ drain' = Drop(Handle(drain_task, drain)).task
    /\ drain_task' = Drop(Handle(drain_task, drain)).drain_task
    /\ UNCHANGED << lease, watch >>

\* apply not called and the daemon's document empty: the state of the
\* orchestrator in the specifications that are about something else.
ApplyIdle ==
    /\ doc = NewServeConfig
    /\ rev = 1
    /\ spec = [local_target |-> Target1, https_port |-> HttpsPort,
               path |-> PathA, funnel |-> TRUE]
    /\ force = FALSE
    /\ ApplyStart

\* ------------------------------------------------------------------- apply

\* One request of the history: what was asked and the status that came back
\* (0: no answer, the connection failed).
Entry(op, code) == [op |-> op, status |-> code]

\* The probe of the local target left out.
AfterStreamSkipsProbe == "FetchingStatus"


\* The stream opened once more after it gave its id.
AfterStreamOpensAgain == "OpeningStream"

\* What apply does once it has the session id: the probe of the local target.
AfterStream == "CheckingLocalTarget"

\* watch_ipn_bus: the stream yields a session id and the drain task is
\* spawned, or the request or the stream fails.
OpenStream ==
    /\ pc = "OpeningStream"
    /\ \/ /\ OwnSession \in StreamIds
          /\ session_id' = Some(OwnSession)
          /\ drain' = "running"
          /\ drain_task' = Some("drain")
          /\ pc' = AfterStream
          /\ log' = Append(log, Entry("watch", 200))
          /\ UNCHANGED << result, etag, config, lease, watch >>
       \/ /\ \E e \in TransportErrors \cup StreamErrors :
                /\ Fail(MapTransportError(e))
                /\ log' = Append(log, Entry("watch", e.status))
          /\ UNCHANGED session_id
    /\ UNCHANGED << daemonVars, inputVars, attempt, status, fetched, written, tcpVars, engineVars, commandVars >>

\* check_port_liveness
ProbeLocalTarget ==
    /\ pc = "CheckingLocalTarget"
    /\ \/ /\ pc' = "FetchingStatus"
          /\ log' = Append(log, Entry("probe", 200))
          /\ UNCHANGED << result, etag, config, lease, watch, drain, drain_task >>
       \/ /\ \E context \in {"Connection refused", "Timed out connecting"} :
                Fail(Error("TargetPortInaccessible", context))
          /\ log' = Append(log, Entry("probe", 0))
    /\ UNCHANGED << daemonVars, inputVars, attempt, session_id, status, fetched, written, tcpVars, engineVars, commandVars >>

\* fetch_status, then the prerequisite checks on what it returned.
FetchStatus ==
    /\ pc = "FetchingStatus"
    /\ \/ /\ \E e \in TransportErrors :
                /\ Fail(MapTransportError(e))
                /\ log' = Append(log, Entry("status", e.status))
          /\ UNCHANGED status
       \/ \E st \in Statuses :
             /\ status' = Some(st)
             /\ log' = Append(log, Entry("status", 200))
             /\ IF ValidatePrerequisites(st) # NoError
                THEN Fail(ValidatePrerequisites(st))
                ELSE /\ pc' = "ConflictCheckLoop"
                     /\ UNCHANGED << result, etag, config, lease, watch, drain, drain_task >>
    /\ UNCHANGED << daemonVars, inputVars, attempt, session_id, fetched, written, tcpVars, engineVars, commandVars >>

\* The host:port of the route, from the fetched status.
HostPortOf(st, sp) == HostPort(Unwrap(st.dns_name), sp.https_port)

\* A scan that looks at no session.
ForegroundScanNothing(cfg, host_port, sp) == {FALSE}

\* The scan of every session's nested configuration in apply: whether it
\* meets a session whose verdict is not Ok(None), under some iteration order.
ForegroundScan(cfg, host_port, sp) ==
    LET fg == IF IsSome(cfg.foreground) THEN Unwrap(cfg.foreground) ELSE EmptyMap
        hits(s) ==
            {v.kind # "None" :
                v \in DetectConflicts(fg[s], host_port, sp.path, sp.local_target, sp.funnel)}
    IN {b \in BOOLEAN :
          IF b THEN \E s \in DOMAIN fg : TRUE \in hits(s)
               ELSE \A s \in DOMAIN fg : FALSE \in hits(s)}

\* The check against the top-level document left out.
CheckConflictsSkipsTop(cfg, host_port, sp, forced) ==
    { IF ~forced /\ fg THEN Error("Conflict", "foreground session") ELSE NoError :
        fg \in ForegroundScan(cfg, host_port, sp) }

\* The two conflict checks of one attempt: the errors they may end with
\* (NoError when the attempt goes on to patch and write).
CheckConflicts(cfg, host_port, sp, forced) ==
    { IF ~forced /\ IsConflict(top) THEN Error("Conflict", "top-level")
      ELSE IF ~forced /\ fg THEN Error("Conflict", "foreground session")
      ELSE NoError :
        top \in DetectConflicts(cfg, host_port, sp.path, sp.local_target, sp.funnel),
        fg \in ForegroundScan(cfg, host_port, sp) }

\* The document apply patches in an attempt: the one this attempt's read returned.
ConfigToPatch(response, previous) == response.config

\* The tag of the first attempt kept over the retries.
EtagKeptOverRetries(response, previous) ==
    IF IsSome(previous) THEN previous ELSE response.etag

\* The entity tag apply keeps for the write: the one this attempt's read returned.
EtagToSend(response, previous) == response.etag

\* A read without an entity tag let through.
RequireEtagLenient(response) == NoError

\* response.etag.ok_or_else(..)?: a read without an entity tag is an error.
RequireEtag(response) ==
    IF IsSome(response.etag) THEN NoError
    ELSE Error("VersionTooOld", "ServeConfig ETag missing")

\* get_serve_config and the rest of the iteration up to the write.
GetServeConfig ==
    /\ pc = "ConflictCheckLoop"
    /\ attempt' = attempt + 1
    /\ \/ /\ \E e \in TransportErrors :
                /\ Fail(MapTransportError(e))
                /\ log' = Append(log, Entry("get", e.status))
          /\ UNCHANGED fetched
       \/ \E tagged \in BOOLEAN :
             LET response == [etag |-> IF tagged THEN Some(rev) ELSE None, config |-> doc]
                 host_port == HostPortOf(Unwrap(status), spec)
             IN /\ fetched' = Some([response |-> response, attempt |-> attempt + 1])
                /\ log' = Append(log, Entry("get", 200))
                /\ IF RequireEtag(response) # NoError
                   THEN Fail(RequireEtag(response))
                   ELSE \E checked \in
                            CheckConflicts(ConfigToPatch(response, config), host_port, spec, force) :
                          IF checked # NoError
                          THEN Fail(checked)
                          ELSE /\ etag' = EtagToSend(response, etag)
                               /\ config' = ApplyPatch(ConfigToPatch(response, config),
                                                Unwrap(session_id), host_port, spec.path,
                                                spec.local_target, spec.funnel)
                               /\ pc' = "Writing"
                               /\ UNCHANGED << result, lease, watch, drain, drain_task >>
    /\ UNCHANGED << daemonVars, inputVars, session_id, status, written, tcpVars, engineVars, commandVars >>


\* The attempts of the loop: `if attempt >= 3` ends it.
MaxAttempts == 3

\* set_serve_config(config, etag): the POST it sends; a supplied tag goes
\* into the If-Match header.
SetServeConfigRequest(body, tag) == [body |-> body, if_match |-> tag]

\* A write sent without the tag.
WriteTagOmitted(tag) == None

\* The tag apply hands to set_serve_config: Some(&etag).
WriteTag(tag) == tag

\* Every error status of a write taken as a reason to try again.
IsRetryStatusAnyError(code) == code # 200

\* The write statuses that make apply run the iteration again.
IsRetryStatus(code) == code = 412 \/ code = 409

\* One iteration too many.
MayRetryOnceMore(n) == ~(n > MaxAttempts)

\* Whether a rejected write is followed by another iteration.
MayRetry(n) == ~(n >= MaxAttempts)

\* The daemon's precondition on a write: no If-Match, or the current revision.
DaemonAccepts(request, revision) ==
    ~IsSome(request.if_match) \/ request.if_match = Some(revision)

\* After the loop: the handle is stored in self.watch, the URL built, the
\* TunnelResult returned; a URL that cannot be built is an error.
Commit ==
    /\ watch' = session_id
    /\ UNCHANGED << etag, config, drain, drain_task >>
    /\ LET url == BuildUrl(Unwrap(Unwrap(status).dns_name), spec.https_port, spec.path)
       IN IF IsSome(url)
          THEN /\ pc' = "Committed"
               /\ lease' = Some([url |-> Unwrap(url), lease_id |-> Unwrap(session_id)])
               /\ UNCHANGED result
          ELSE /\ pc' = "Failed"
               /\ result' = Error("Other", "Failed to build URL")
               /\ UNCHANGED lease

\* The match on the error of set_serve_config: 412/409 runs the iteration
\* again unless this was the last attempt, any other error ends apply.
AfterFailedWrite(e) ==
    IF e.kind = "HttpStatus" /\ IsRetryStatus(e.status)
    THEN IF MayRetry(attempt)
         THEN /\ pc' = "ConflictCheckLoop"
              /\ UNCHANGED << result, etag, config, lease, watch, drain, drain_task >>
         ELSE Fail(Error("ApplyFailed", "ServeConfig changed concurrently"))
    ELSE Fail(MapTransportError(e))

\* set_serve_config and what apply does with its answer.
SetServeConfig ==
    /\ pc = "Writing"
    /\ LET request == SetServeConfigRequest(config, WriteTag(etag)) IN
       \/ /\ DaemonAccepts(request, rev)
          /\ doc' = request.body
          /\ rev' = rev + 1
          /\ written' = Some([request |-> request, status |-> 200, attempt |-> attempt])
          /\ log' = Append(log, Entry("post", 200))
          /\ Commit
       \/ /\ \E e \in TransportErrors :
                /\ e.status \in {412, 409} => ~DaemonAccepts(request, rev)
                /\ written' =
                      Some([request |-> request, status |-> e.status, attempt |-> attempt])
                /\ log' = Append(log, Entry("post", e.status))
                /\ AfterFailedWrite(e)
          /\ UNCHANGED daemonVars
    /\ UNCHANGED << inputVars, attempt, session_id, status, fetched, tcpVars, engineVars, commandVars >>

\* ------------------------------------------------------------ other clients

\* Another local client commits a change of its own to the document while
\* apply runs.
OtherClientWrite ==
    /\ pc \notin {"Committed", "Failed"}
    /\ rev < MaxRev
    /\ doc' \in OtherWrites(doc)
    /\ rev' = rev + 1
    /\ UNCHANGED << inputVars, pc, attempt, session_id, status, etag, config, result,
                    lease, watch, drain, drain_task, log, fetched, written, tcpVars, engineVars, commandVars >>

Next ==
    \/ OpenStream
    \/ ProbeLocalTarget
    \/ FetchStatus
    \/ GetServeConfig
    \/ SetServeConfig
    \/ OtherClientWrite

Spec == Init /\ [][Next]_vars


\* ---------------------------------------------------- properties of apply

IsGet(e) == e.op = "get"
IsPost(e) == e.op = "post"
Gets == SelectSeq(log, IsGet)
Posts == SelectSeq(log, IsPost)

\* The patch of this run of apply, applied to document d.
OwnPatch(d) ==
    ApplyPatch(d, Unwrap(session_id), HostPortOf(Unwrap(status), spec), spec.path,
               spec.local_target, spec.funnel)

\* This step is a write of apply that the daemon accepted.
CommitStep == Len(log') = Len(log) + 1 /\ log'[Len(log')] = Entry("post", 200)

\* C1: every write apply commits is the document as the daemon holds it at
\* that moment, which is still the revision fetched in the same attempt,
\* plus apply's own patch: no change another client committed between the
\* fetch and the write is overwritten.
C1_NoLostUpdate ==
    [][CommitStep =>
          /\ IsSome(fetched)
          /\ Unwrap(fetched).attempt = attempt
          /\ Unwrap(fetched).response.etag = Some(rev)
          /\ Unwrap(fetched).response.config = doc
          /\ doc' = OwnPatch(doc)]_vars

\* C1 witness: apply committed on a retry, after another client's write had
\* made its first attempt stale, and both routes are in the document.
C1_Witness ==
    /\ pc = "Committed"
    /\ attempt >= 2
    /\ IsSome(doc.foreground)
    /\ {OwnSession, OtherSession} \subseteq DOMAIN Unwrap(doc.foreground)

\* C2: apply changes the document at most once and only by the write that
\* returns success, and an apply that ends in an error has changed nothing.
C2_NoPartialCommit ==
    /\ Cardinality({i \in DOMAIN log : log[i] = Entry("post", 200)}) <= 1
    /\ pc = "Failed" => \A i \in DOMAIN log : log[i] # Entry("post", 200)

\* C3: writes rejected with 412/409 on the first and second attempt and
\* accepted on the third make apply return success after exactly 3 reads
\* and 3 writes.
C3_ThirdAttemptSucceeds ==
    (/\ Len(Posts) = 3
     /\ Posts[1].status \in {412, 409}
     /\ Posts[2].status \in {412, 409}
     /\ Posts[3].status = 200)
    => /\ pc = "Committed"
       /\ Len(Gets) = 3

\* C4: apply makes at most 3 attempts; when the third write too is rejected
\* with 412/409 it ends with the ApplyFailed "changed concurrently" error,
\* and there is never a fourth read or write.
C4_AtMostThreeAttempts ==
    /\ attempt <= 3
    /\ Len(Gets) <= 3
    /\ Len(Posts) <= 3
    /\ (Len(Posts) = 3 /\ Posts[3].status \in {412, 409})
       => /\ pc = "Failed"
          /\ result = Error("ApplyFailed", "ServeConfig changed concurrently")
          /\ Len(Gets) = 3

\* C4 witness: three writes were rejected and apply gave up.
C4_Witness ==
    /\ pc = "Failed"
    /\ Len(Posts) = 3
    /\ \A i \in 1..3 : Posts[i].status \in {412, 409}

\* C5: the document patched and the tag sent in an attempt are those of the
\* read of that same attempt, and no write goes out without a tag.
C5_FreshCopyAndToken ==
    /\ pc = "Writing" =>
          /\ IsSome(fetched)
          /\ Unwrap(fetched).attempt = attempt
          /\ IsSome(etag)
          /\ etag = Unwrap(fetched).response.etag
          /\ config = OwnPatch(Unwrap(fetched).response.config)
    /\ IsSome(written) =>
          /\ IsSome(Unwrap(written).request.if_match)
          /\ Unwrap(written).attempt = Unwrap(fetched).attempt =>
                Unwrap(written).request =
                    [body |-> OwnPatch(Unwrap(fetched).response.config),
                     if_match |-> Unwrap(fetched).response.etag]

\* C5 witness: a retry is about to write, with a tag that differs from the
\* one the rejected write of the attempt before carried.
C5_Witness ==
    /\ pc = "Writing"
    /\ attempt >= 2
    /\ IsSome(written)
    /\ Unwrap(written).request.if_match # etag
    /\ Unwrap(written).request.body # config

\* C6: the requests go out in the order stream, probe, status, then
\* read/write pairs; no read or write of the serving configuration is made
\* before the session id is known, the probe has succeeded and the fetched
\* status meets every prerequisite; Committed comes after an accepted write.
C6_StepOrder ==
    /\ \A i \in DOMAIN log :
          /\ log[i].op = "watch" <=> i = 1
          /\ log[i].op = "probe" <=> i = 2
          /\ log[i].op = "status" <=> i = 3
          /\ log[i].op = "get" <=> (i >= 4 /\ i % 2 = 0)
          /\ log[i].op = "post" <=> (i >= 5 /\ i % 2 = 1)
          /\ i < Len(log) =>
                \/ log[i].status = 200
                \/ log[i].op = "post" /\ log[i].status \in {412, 409}
    /\ Len(Gets) > 0 =>
          /\ session_id = Some(OwnSession)
          /\ log[2] = Entry("probe", 200)
          /\ IsSome(status)
          /\ Unwrap(status).https_enabled = Some(TRUE)
          /\ Unwrap(status).funnel_enabled = Some(TRUE)
          /\ IsSome(Unwrap(status).dns_name)
          /\ IsSome(Unwrap(status).version)
    /\ pc = "Committed" => (Len(log) >= 5 /\ log[Len(log)] = Entry("post", 200))

\* C6 witness: a run that went through every step and committed.
C6_Witness == pc = "Committed" /\ Len(log) = 5

\* The version strings of the model that denote a version >= 1.50.0.
SupportedVersionStrings == { <<1, 50, 0>>, <<1, 62, 0, -1>>, <<1, 50>> }

C11_NothingElseRetried ==
    /\ \A op \in {"watch", "probe", "status"} :
          Cardinality({i \in DOMAIN log : log[i].op = op}) <= 1
    /\ \A i \in DOMAIN log :
          /\ (log[i].status # 200 /\ ~(log[i].op = "post" /\ log[i].status \in {412, 409}))
                => (i = Len(log) /\ pc = "Failed" /\ result # NoError)
          /\ (i > 1 /\ log[i].op = "get" /\ log[i - 1].op \in {"get", "post"})
                => log[i - 1] \in {Entry("post", 412), Entry("post", 409)}
          /\ (i > 1 /\ log[i].op = "post") => log[i - 1] = Entry("get", 200)

\* C11 witness: a configuration read answered 412 ended apply at once.
C11_Witness ==
    /\ pc = "Failed"
    /\ Len(log) >= 4
    /\ log[Len(log)] = Entry("get", 412)
    /\ Len(Gets) = 1
    /\ result = Error("ApplyFailed", "LocalAPI request failed with status")

\* The state right after the configuration read of the current attempt.
AfterRead ==
    /\ IsSome(fetched)
    /\ Unwrap(fetched).attempt = attempt
    /\ log[Len(log)] = Entry("get", 200)

\* C12: a configuration read without an entity tag ends apply with
\* VersionTooOld in that attempt, and no write is sent for it.
C12_MissingEtag ==
    (AfterRead /\ ~IsSome(Unwrap(fetched).response.etag))
    => /\ pc = "Failed"
       /\ result = Error("VersionTooOld", "ServeConfig ETag missing")
       /\ Len(Posts) = attempt - 1

\* C12 witness: the read of a retry came without an entity tag.
C12_Witness ==
    /\ AfterRead
    /\ ~IsSome(Unwrap(fetched).response.etag)
    /\ attempt = 2
    /\ pc = "Failed"

\* The verdicts detect_conflicts may give on the top-level document just read.
TopVerdicts ==
    DetectConflicts(Unwrap(fetched).response.config, HostPortOf(Unwrap(status), spec),
                    spec.path, spec.local_target, spec.funnel)

\* C13: when detect_conflicts reports a conflict on the top-level document
\* just read, apply without force ends with a Conflict error and sends no
\* write; with force it goes on to patch and write.
C13_TopLevelConflict ==
    /\ (AfterRead /\ IsSome(Unwrap(fetched).response.etag)
           /\ \A v \in TopVerdicts : IsConflict(v))
       => IF force
          THEN pc = "Writing" /\ config = OwnPatch(Unwrap(fetched).response.config)
          ELSE pc = "Failed" /\ result = Error("Conflict", "top-level")
    /\ (AfterRead /\ result = Error("Conflict", "top-level"))
       => (~force /\ \E v \in TopVerdicts : IsConflict(v))

\* C13 witness: a top-level conflict stopped an apply that was not forced.
C13_Witness ==
    /\ AfterRead
    /\ \A v \in TopVerdicts : IsConflict(v)
    /\ ~force
    /\ pc = "Failed"
    /\ result.kind = "Conflict"

\* Handler (existing_path -> existing_target) conflicts with the proposal
\* (new_path -> new_target): same path with another target, or one path a
\* prefix mount that covers the other.
HandlerConflicts(existing_path, existing_target, new_path, new_target) ==
    \/ existing_path = new_path /\ existing_target # new_target
    \/ /\ existing_path # new_path
       /\ \/ EndsWithSlash(existing_path) /\ StartsWith(new_path, existing_path)
          \/ EndsWithSlash(new_path) /\ StartsWith(existing_path, new_path)

\* Some handler of cfg at host_port conflicts with the proposal.
HoldsConflict(cfg, host_port, new_path, new_target) ==
    /\ IsSome(GetHandlers(cfg, host_port))
    /\ \E e \in DOMAIN Unwrap(GetHandlers(cfg, host_port)) :
          HandlerConflicts(e, DescribeHandlerTarget(Unwrap(GetHandlers(cfg, host_port))[e]),
                           new_path, new_target)

\* Some other session of the document just read holds a conflicting handler.
OtherSessionConflicts ==
    LET cfg == Unwrap(fetched).response.config IN
    /\ IsSome(cfg.foreground)
    /\ \E s \in DOMAIN Unwrap(cfg.foreground) \ {OwnSession} :
          HoldsConflict(Unwrap(cfg.foreground)[s], HostPortOf(Unwrap(status), spec),
                        spec.path, spec.local_target)

\* C14: when another session's nested configuration holds a handler that
\* conflicts with the proposal, apply without force ends with a Conflict
\* error and sends no write; with force it goes on to write.
C14_ForegroundConflict ==
    (AfterRead /\ IsSome(Unwrap(fetched).response.etag) /\ OtherSessionConflicts)
    => IF force THEN pc = "Writing"
       ELSE pc = "Failed" /\ result.kind = "Conflict"

\* ------------------------------------------------------------- TCP channel

\* Runs of the TCP channel: requests sent and changes of the file on disk.
MaxRequests == 2
MaxRotations == 2

\* build_basic_auth: "Basic " + base64(":" + password)
BuildBasicAuth(secret) == << "Basic", ":", secret >>

\* The file read anew for every attempt.
AuthSecretFromFile(stored, file) ==
    IF ReadPasswordFile(file).err = "" THEN ReadPasswordFile(file).password ELSE stored

\* The secret send_once puts into the Authorization header: the stored one.
AuthSecret(stored, file) == stored

\* send_once: the attempt it sends (with the file as it is on disk then).
SendOnce(stored, file, latest) ==
    [authorization |-> BuildBasicAuth(AuthSecret(stored, file)), file |-> file,
     last_read |-> latest]

\* The re-read secret thrown away.
RefreshedSecretDropped(stored, refreshed) == stored

\* What send stores after a successful re-read: `*guard = refreshed`.
RefreshedSecret(stored, refreshed) == refreshed

\* The answers a request may get: a status, or a connection failure.
Answers ==
    {[kind |-> "Status", status |-> c] : c \in {200, 401, 403, 500}}
    \cup {[kind |-> "Http", status |-> 0]}

\* ensure_status_ok, then map_transport_error: what the caller of a request
\* that was answered with `code` gets.
EnsureStatusOk(code) ==
    IF code = 200 THEN NoError ELSE MapTransportError(HttpStatus(code))

\* TcpAuthTransport::new_with_password_file
TcpNew ==
    /\ tpc = "Off"
    /\ LET r == ReadPasswordFile(secret_file) IN
       IF r.err = ""
       THEN /\ password' = r.password
            /\ last_read' = r.password
            /\ tpc' = "Idle"
            /\ UNCHANGED outcome
       ELSE /\ outcome' = MapTransportError([kind |-> r.err, status |-> 0])
            /\ tpc' = "Unbuilt"
            /\ UNCHANGED << password, last_read >>
    /\ UNCHANGED << secret_file, sends, responses, rereads, requests, rotations, applyVars, engineVars, commandVars >>

\* send: the first send_once of a request.
TcpSend ==
    /\ tpc = "Idle"
    /\ requests < MaxRequests
    /\ requests' = requests + 1
    /\ sends' = << SendOnce(password, secret_file, last_read) >>
    /\ responses' = << >>
    /\ rereads' = 0
    /\ outcome' = NoError
    /\ tpc' = "AwaitFirst"
    /\ UNCHANGED << secret_file, password, rotations, last_read, applyVars, engineVars, commandVars >>

\* send: the answer to the first send_once; on 401 the file is read again
\* and the request sent once more.
TcpFirstAnswer ==
    /\ tpc = "AwaitFirst"
    /\ \E a \in Answers :
          /\ responses' = Append(responses, a)
          /\ IF a.kind = "Http"
             THEN /\ outcome' = MapTransportError(a)
                  /\ tpc' = "Idle"
                  /\ UNCHANGED << password, sends, rereads, last_read >>
             ELSE IF a.status = 401
             THEN LET r == ReadPasswordFile(secret_file) IN
                  /\ rereads' = rereads + 1
                  /\ IF r.err # ""
                     THEN /\ outcome' = MapTransportError([kind |-> r.err, status |-> 0])
                          /\ tpc' = "Idle"
                          /\ UNCHANGED << password, sends, last_read >>
                     ELSE /\ password' = RefreshedSecret(password, r.password)
                          /\ last_read' = r.password
                          /\ sends' = Append(sends,
                                 SendOnce(RefreshedSecret(password, r.password),
                                          secret_file, r.password))
                          /\ tpc' = "AwaitRetry"
                          /\ UNCHANGED outcome
             ELSE /\ outcome' = EnsureStatusOk(a.status)
                  /\ tpc' = "Idle"
                  /\ UNCHANGED << password, sends, rereads, last_read >>
    /\ UNCHANGED << secret_file, requests, rotations, applyVars, engineVars, commandVars >>

\* The answer to the retry handled like the first one: on 401 the file is
\* read and the request sent yet again.
TcpRetryAnswerRefreshesAgain ==
    /\ tpc = "AwaitRetry"
    /\ \E a \in Answers :
          /\ responses' = Append(responses, a)
          /\ IF a.kind = "Status" /\ a.status = 401 /\ ReadPasswordFile(secret_file).err = ""
             THEN LET r == ReadPasswordFile(secret_file) IN
                  /\ rereads' = rereads + 1
                  /\ password' = r.password
                  /\ last_read' = r.password
                  /\ sends' = Append(sends, SendOnce(r.password, secret_file, r.password))
                  /\ UNCHANGED << tpc, outcome >>
             ELSE /\ outcome' = IF a.kind = "Http" THEN MapTransportError(a)
                                ELSE EnsureStatusOk(a.status)
                  /\ tpc' = "Idle"
                  /\ UNCHANGED << password, sends, rereads, last_read >>
    /\ UNCHANGED << secret_file, requests, rotations, applyVars, engineVars, commandVars >>

\* send: the answer to the retry is returned as it is.
TcpRetryAnswer ==
    /\ tpc = "AwaitRetry"
    /\ \E a \in Answers :
          /\ responses' = Append(responses, a)
          /\ outcome' = IF a.kind = "Http" THEN MapTransportError(a)
                        ELSE EnsureStatusOk(a.status)
          /\ tpc' = "Idle"
    /\ UNCHANGED << secret_file, password, sends, rereads, requests, rotations, last_read,
                    applyVars, engineVars, commandVars >>

\* The password file is changed on disk (the daemon rotates the secret,
\* or the file is damaged).
RotateSecret ==
    /\ tpc # "Off"
    /\ rotations < MaxRotations
    /\ \E f \in FileStates \ {secret_file} : secret_file' = f
    /\ rotations' = rotations + 1
    /\ UNCHANGED << password, tpc, sends, responses, rereads, outcome, requests, last_read,
                    applyVars, engineVars, commandVars >>

\* ------------------------------------------------ properties of the TCP channel

Unauthorized == [kind |-> "Status", status |-> 401]

\* C8: a request answered 401 and then a success on the retry succeeds, with
\* exactly one re-read of the password file and exactly two attempts, the
\* second carrying the secret the file held at the re-read.
C8_RefreshOn401 ==
    (/\ tpc = "Idle"
     /\ Len(responses) = 2
     /\ responses[1] = Unauthorized
     /\ responses[2] = [kind |-> "Status", status |-> 200])
    => /\ outcome = NoError
       /\ rereads = 1
       /\ Len(sends) = 2
       /\ ReadPasswordFile(sends[2].file).err = ""
       /\ sends[2].authorization = BuildBasicAuth(ReadPasswordFile(sends[2].file).password)

\* C8 witness: 401 then 200, and the retry carried another secret than the
\* first attempt.
C8_Witness ==
    /\ tpc = "Idle"
    /\ Len(responses) = 2
    /\ responses[1] = Unauthorized
    /\ responses[2] = [kind |-> "Status", status |-> 200]
    /\ sends[1].authorization # sends[2].authorization

\* C9: the secret is refreshed at most once per request; a second 401 is
\* returned to the caller as the terminal authorization error, with no third
\* attempt and no second re-read.
C9_SingleRefresh ==
    /\ Len(sends) <= 2
    /\ rereads <= 1
    /\ Len(responses) <= 2
    /\ (Len(responses) = 2 /\ responses[2] = Unauthorized)
       => /\ responses[1] = Unauthorized
          /\ tpc = "Idle"
          /\ outcome = Error("Permission", "LocalAPI auth rejected")
          /\ Len(sends) = 2
          /\ rereads = 1

\* C9 witness: a request that was answered 401 twice.
C9_Witness ==
    /\ tpc = "Idle"
    /\ responses = << Unauthorized, Unauthorized >>
    /\ outcome.kind = "Permission"

\* C10 as stated: every attempt carries the secret the password file holds
\* when the attempt is sent.
C10_SecretReadBeforeEachAttempt ==
    \A i \in DOMAIN sends :
        ReadPasswordFile(sends[i].file).err = "" =>
            sends[i].authorization = BuildBasicAuth(ReadPasswordFile(sends[i].file).password)

\* C10: the password file is read when the channel is built and again only
\* after a 401; every attempt carries the secret of the latest successful
\* read, so a first attempt may carry an older secret than the file holds,
\* and the retry after a 401 carries the one the file holds then.
C10_SecretOfLatestRead ==
    /\ \A i \in DOMAIN sends :
          /\ sends[i].authorization = BuildBasicAuth(sends[i].last_read)
          /\ i = 2 => sends[i].last_read = ReadPasswordFile(sends[i].file).password
    /\ tpc \in {"Idle", "AwaitFirst", "AwaitRetry"} => password = last_read

\* C10 witness: a first attempt sent with the stored secret while the file,
\* valid, holds another one.
C10_Witness ==
    /\ Len(sends) >= 1
    /\ ReadPasswordFile(sends[1].file).err = ""
    /\ sends[1].authorization # BuildBasicAuth(ReadPasswordFile(sends[1].file).password)


NextTcp ==
    \/ TcpNew
    \/ TcpSend
    \/ TcpFirstAnswer
    \/ TcpRetryAnswer
    \/ RotateSecret

\* The TCP channel alone: apply does not run.
InitTcp ==
    /\ doc = NewServeConfig
    /\ rev = 1
    /\ spec = [local_target |-> Target1, https_port |-> HttpsPort,
               path |-> PathA, funnel |-> TRUE]
    /\ force = FALSE
    /\ ApplyStart
    /\ secret_file \in FileStates
    /\ password = << >>
    /\ tpc = "Off"
    /\ sends = << >>
    /\ responses = << >>
    /\ rereads = 0
    /\ outcome = NoError
    /\ requests = 0
    /\ rotations = 0
    /\ last_read = << >>
    /\ EngineIdle
    /\ CommandIdle

SpecTcp == InitTcp /\ [][NextTcp]_vars

\* ------------------------------------------------------------- patch engine

\* A path handler, as another client may install one.
PathHandler(dir) ==
    [proxy |-> None, path |-> Some(dir), text |-> None, unknown |-> EmptyMap]

\* Another host:port of the node.
OtherHostPort == HostPort(NodeName, HttpsPort + 8000)

\* The handlers a path of the engine's input may carry.
EngineHandlers ==
    {NewProxy(Target1), NewProxy(Target2), TextHandler("hello"), PathHandler("/srv/www")}

\* The handler maps at the node's host:port: any set of paths, any handlers.
EngineHandlerMaps == UNION {[S -> EngineHandlers] : S \in SUBSET Paths}

\* A session's nested document with routes of its own: two paths at the
\* node's host:port, a route and funnel at another host:port, extra fields.
SessionBase ==
    [NewServeConfig EXCEPT
        !.web = Some(Put(Put(EmptyMap, OtherHostPort,
                             [handlers |-> Some(Put(EmptyMap, PathA, NewProxy(Target2))),
                              unknown |-> EmptyMap]),
                         NodeHostPort,
                         [handlers |-> Some(Put(Put(EmptyMap, PathADir, TextHandler("hello")),
                                                PathA, NewProxy(Target1))),
                          unknown |-> Put(EmptyMap, "Extra", "x")])),
        !.allow_funnel = Some(Put(EmptyMap, OtherHostPort, TRUE)),
        !.unknown = Put(EmptyMap, "ETag", "e")]

\* The foreground maps of the engine's input.
EngineForegrounds ==
    { None,
      Some(Put(EmptyMap, OwnSession, NewServeConfig)),
      Some(Put(EmptyMap, OtherSession, SessionBase)),
      Some(Put(Put(EmptyMap, OtherSession, SessionBase), OwnSession, SessionBase)) }

\* The documents handed to the engine.
EngineConfigs ==
    {NewServeConfig} \cup
    {[tcp |-> Some(Put(EmptyMap, "22", "forward")),
      web |-> Some(Put(EmptyMap, NodeHostPort, [handlers |-> Some(h), unknown |-> EmptyMap])),
      allow_funnel |-> IF f THEN Some(Put(EmptyMap, NodeHostPort, TRUE)) ELSE None,
      foreground |-> fg,
      unknown |-> Put(EmptyMap, "Services", "svc")] :
        h \in EngineHandlerMaps, f \in BOOLEAN, fg \in EngineForegrounds}

\* The proposals handed to the engine.
Proposals ==
    [session_id : {OwnSession}, host_port : {NodeHostPort}, path : Paths,
     target : Targets, funnel : BOOLEAN]

\* detect_conflicts(config, host_port, new_path, new_target, funnel_enabled)
DetectConflictsCall ==
    /\ verdict = None
    /\ \E v \in DetectConflicts(given, proposal.host_port, proposal.path, proposal.target,
                                proposal.funnel) :
          verdict' = Some(v)
    /\ UNCHANGED << given, proposal, patched, removed, document, reserialized,
                    applyVars, tcpVars, commandVars >>

\* apply_patch(config, session_id, host_port, path, target, funnel_enabled)
ApplyPatchCall ==
    /\ patched = None
    /\ patched' = Some(ApplyPatch(given, proposal.session_id, proposal.host_port,
                                   proposal.path, proposal.target, proposal.funnel))
    /\ UNCHANGED << given, proposal, verdict, removed, document, reserialized,
                    applyVars, tcpVars, commandVars >>

NextEngine ==
    \/ DetectConflictsCall
    \/ ApplyPatchCall

InitEngine ==
    /\ doc = NewServeConfig
    /\ rev = 1
    /\ spec = [local_target |-> Target1, https_port |-> HttpsPort,
               path |-> PathA, funnel |-> TRUE]
    /\ force = FALSE
    /\ ApplyStart
    /\ TcpIdle
    /\ given \in EngineConfigs
    /\ proposal \in Proposals
    /\ verdict = None
    /\ patched = None
    /\ removed = None
    /\ document = EmptyMap
    /\ reserialized = None
    /\ CommandIdle

SpecEngine == InitEngine /\ [][NextEngine]_vars

\* ------------------------------------------- properties of the patch engine

\* The handler map the engine's input holds at the proposal's host:port.
GivenHandlers ==
    IF IsSome(GetHandlers(given, proposal.host_port))
    THEN Unwrap(GetHandlers(given, proposal.host_port))
    ELSE EmptyMap

\* The target an existing handler stands for in a verdict.
TargetOf(handler) ==
    IF IsSome(handler.proxy) THEN Unwrap(handler.proxy)
    ELSE IF IsSome(handler.path) THEN "path handler"
    ELSE "text handler"

\* Path e and the proposed path overlap by prefix: one is a mount ending in
\* "/" that the other starts with.
PrefixOverlap(e, n) ==
    /\ e # n
    /\ \/ EndsWithSlash(e) /\ StartsWith(n, e)
       \/ EndsWithSlash(n) /\ StartsWith(e, n)

\* The existing paths, other than the proposed one, that overlap it by prefix.
Overlapping == {e \in DOMAIN GivenHandlers : PrefixOverlap(e, proposal.path)}

\* The prefix conflict detect_conflicts reports for existing path e.
PrefixConflictFor(e) ==
    [kind |-> IF EndsWithSlash(e) /\ StartsWith(proposal.path, e)
              THEN "CapturedByExistingPrefix" ELSE "NewPrefixCapturesExisting",
     path |-> Some(e), target |-> TargetOf(GivenHandlers[e]),
     new_path |-> proposal.path, new_target |-> proposal.target]

\* C15: a path that does not end in "/" is never a prefix: when neither the
\* proposed path nor any existing path ends in "/" and none equals the
\* proposed one, no conflict is reported, even if one path starts with the
\* other; and no reported conflict ever names such an existing path.
C15_NoPrefixWithoutSlash ==
    IsSome(verdict) =>
        /\ (\A e \in DOMAIN GivenHandlers :
                e # proposal.path /\ ~EndsWithSlash(e) /\ ~EndsWithSlash(proposal.path))
           => verdict = Some(NoConflict)
        /\ IsConflict(Unwrap(verdict)) =>
              LET e == Unwrap(Unwrap(verdict).path) IN
              ~(e # proposal.path /\ ~EndsWithSlash(e) /\ ~EndsWithSlash(proposal.path))

\* C15 witness: existing /a, proposed /a/b, no conflict.
C15_Witness ==
    /\ verdict = Some(NoConflict)
    /\ DOMAIN GivenHandlers = {PathA}
    /\ proposal.path = PathAB
    /\ TargetOf(GivenHandlers[PathA]) # proposal.target

\* The proposal is identical to an existing handler.
SameMapping ==
    /\ proposal.path \in DOMAIN GivenHandlers
    /\ GivenHandlers[proposal.path] = NewProxy(proposal.target)

\* idempotent-match iff both funnel flags are true, else no-conflict.
SameMappingVerdict ==
    IF IsFunnelEnabled(given, proposal.host_port) /\ proposal.funnel
    THEN Idempotent ELSE NoConflict

\* C16 as stated: an identical (path, target) gives idempotent-match iff both
\* funnel flags are true and no-conflict otherwise, never an error.
C16_IdenticalNeverError ==
    (IsSome(verdict) /\ SameMapping) => verdict = Some(SameMappingVerdict)

\* C16: an identical (path, target) gives idempotent-match iff both funnel
\* flags are true and no-conflict otherwise, when no other existing handler
\* overlaps the path by prefix; when one does, the verdict is either that
\* or the prefix conflict for such a handler.
C16_IdenticalUnlessOverlap ==
    (IsSome(verdict) /\ SameMapping) =>
        \/ verdict = Some(SameMappingVerdict)
        \/ \E e \in Overlapping : verdict = Some(PrefixConflictFor(e))

\* C16 witness: an identical proposal among other handlers, none overlapping,
\* both flags true, judged idempotent.
C16_Witness ==
    /\ SameMapping
    /\ Overlapping = {}
    /\ Cardinality(DOMAIN GivenHandlers) = 2
    /\ verdict = Some(Idempotent)

\* C17: with exactly one existing handler (E -> A) and a proposal for
\* another path N: E ending in "/" with N starting with E gives "captured by
\* existing prefix" naming E and A; N ending in "/" with E starting with N
\* gives "new prefix captures existing" naming E and A.
C17_PrefixConflicts ==
    \A e \in Paths :
        (IsSome(verdict) /\ DOMAIN GivenHandlers = {e} /\ e # proposal.path) =>
            /\ (EndsWithSlash(e) /\ StartsWith(proposal.path, e)) =>
                  verdict = Some([kind |-> "CapturedByExistingPrefix", path |-> Some(e),
                                  target |-> TargetOf(GivenHandlers[e]),
                                  new_path |-> proposal.path,
                                  new_target |-> proposal.target])
            /\ (EndsWithSlash(proposal.path) /\ StartsWith(e, proposal.path)) =>
                  verdict = Some([kind |-> "NewPrefixCapturesExisting", path |-> Some(e),
                                  target |-> TargetOf(GivenHandlers[e]),
                                  new_path |-> proposal.path,
                                  new_target |-> proposal.target])

\* C17 witness: existing /a/ alone, proposed /a/b, captured by the prefix.
C17_Witness ==
    /\ DOMAIN GivenHandlers = {PathADir}
    /\ proposal.path = PathAB
    /\ IsSome(verdict)
    /\ Unwrap(verdict).kind = "CapturedByExistingPrefix"
    /\ Unwrap(verdict).path = Some(PathADir)

\* An existing handler sits at the proposed path with another target.
DifferentTarget ==
    /\ proposal.path \in DOMAIN GivenHandlers
    /\ TargetOf(GivenHandlers[proposal.path]) # proposal.target

\* The conflict exact-path-different-target for the proposal.
ExactPathConflict ==
    [kind |-> "ExactPathDifferentTarget", path |-> Some(proposal.path),
     target |-> TargetOf(GivenHandlers[proposal.path]),
     new_path |-> proposal.path, new_target |-> proposal.target]

\* C18 as stated: an existing handler at the proposed path with another
\* target (any non-proxy handler included) gives exact-path-different-target
\* with the path, the existing target and the new target, whatever the flags.
C18_ExactPathAlways ==
    (IsSome(verdict) /\ DifferentTarget) => verdict = Some(ExactPathConflict)

\* C18: an existing handler at the proposed path with another target (any
\* non-proxy handler included) always gives a conflict, whatever the flags:
\* exact-path-different-target with the path, the existing target and the
\* new target, or, when another existing handler overlaps the path by
\* prefix, possibly the prefix conflict for that handler.
C18_ExactPathUnlessOverlap ==
    (IsSome(verdict) /\ DifferentTarget) =>
        /\ IsConflict(Unwrap(verdict))
        /\ \/ verdict = Some(ExactPathConflict)
           \/ \E e \in Overlapping : verdict = Some(PrefixConflictFor(e))

\* C18 witness: a text handler alone at the proposed path, both funnel flags
\* true, judged exact-path-different-target.
C18_Witness ==
    /\ DOMAIN GivenHandlers = {proposal.path}
    /\ GivenHandlers[proposal.path] = TextHandler("hello")
    /\ IsFunnelEnabled(given, proposal.host_port) /\ proposal.funnel
    /\ verdict = Some(ExactPathConflict)

\* C19: if at least one existing handler conflicts with the proposal (same
\* path with another target, or prefix overlap either way), a conflict is
\* reported whatever the iteration order of the handler map.
C19_ConflictInEveryOrder ==
    (IsSome(verdict) /\ (DifferentTarget \/ Overlapping # {}))
    => IsConflict(Unwrap(verdict))

\* C20: apply_patch sets foreground[session_id].web[host_port].handlers[path]
\* to the proxy handler for the target and, only when funnel is enabled,
\* foreground[session_id].allow_funnel[host_port] to true; every other path,
\* host:port, session and field, and the outer document's tcp, web,
\* allow_funnel and unrecognized fields, are as before.
C20_PatchFrame ==
    IsSome(patched) =>
        LET after == Unwrap(patched)
            sid == proposal.session_id
            hp == proposal.host_port
            fg0 == IF IsSome(given.foreground) THEN Unwrap(given.foreground) ELSE EmptyMap
            old == IF sid \in DOMAIN fg0 THEN fg0[sid] ELSE NewServeConfig
            web0 == IF IsSome(old.web) THEN Unwrap(old.web) ELSE EmptyMap
            wc0 == IF hp \in DOMAIN web0 THEN web0[hp] ELSE NewWebServerConfig
            hs0 == IF IsSome(wc0.handlers) THEN Unwrap(wc0.handlers) ELSE EmptyMap
            af0 == IF IsSome(old.allow_funnel) THEN Unwrap(old.allow_funnel) ELSE EmptyMap
        IN /\ after.tcp = given.tcp
           /\ after.web = given.web
           /\ after.allow_funnel = given.allow_funnel
           /\ after.unknown = given.unknown
           /\ IsSome(after.foreground)
           /\ LET fg == Unwrap(after.foreground) IN
              /\ DOMAIN fg = DOMAIN fg0 \cup {sid}
              /\ \A s \in DOMAIN fg0 \ {sid} : fg[s] = fg0[s]
              /\ fg[sid].tcp = old.tcp
              /\ fg[sid].foreground = old.foreground
              /\ fg[sid].unknown = old.unknown
              /\ IF proposal.funnel
                 THEN /\ IsSome(fg[sid].allow_funnel)
                      /\ LET af == Unwrap(fg[sid].allow_funnel) IN
                         /\ DOMAIN af = DOMAIN af0 \cup {hp}
                         /\ af[hp] = TRUE
                         /\ \A h \in DOMAIN af0 \ {hp} : af[h] = af0[h]
                 ELSE fg[sid].allow_funnel = old.allow_funnel
              /\ IsSome(fg[sid].web)
              /\ LET web == Unwrap(fg[sid].web) IN
                 /\ DOMAIN web = DOMAIN web0 \cup {hp}
                 /\ \A h \in DOMAIN web0 \ {hp} : web[h] = web0[h]
                 /\ web[hp].unknown = wc0.unknown
                 /\ IsSome(web[hp].handlers)
                 /\ LET hs == Unwrap(web[hp].handlers) IN
                    /\ DOMAIN hs = DOMAIN hs0 \cup {proposal.path}
                    /\ \A q \in DOMAIN hs0 \ {proposal.path} : hs[q] = hs0[q]
                    /\ hs[proposal.path] =
                          [proxy |-> Some(proposal.target), path |-> None, text |-> None,
                           unknown |-> EmptyMap]

\* C20 witness: the patch overwrote the text handler at /a/ of a session
\* that has another path, another host:port and a neighbour session.
C20_Witness ==
    /\ IsSome(patched)
    /\ IsSome(given.foreground)
    /\ DOMAIN Unwrap(given.foreground) = {OwnSession, OtherSession}
    /\ Unwrap(given.foreground)[OwnSession] = SessionBase
    /\ proposal.path = PathADir
    /\ proposal.funnel
    /\ Unwrap(patched) # given

\* ------------------------------------------------------------ remove_patch

\* A session's nested document with one host:port and the given handler map.
SessionWith(host_port, handlers) ==
    [NewServeConfig EXCEPT
        !.web = Some(Put(EmptyMap, host_port, [handlers |-> handlers, unknown |-> EmptyMap]))]

\* The nested documents the session of the proposal may hold before the call.
RemoveSessions ==
    { NewServeConfig,
      SessionBase,
      SessionWith(OtherHostPort, Some(Put(EmptyMap, PathA, NewProxy(Target1)))),
      SessionWith(NodeHostPort, None),
      SessionWith(NodeHostPort, Some(EmptyMap)),
      SessionWith(NodeHostPort, Some(Put(EmptyMap, PathAB, NewProxy(Target2)))),
      SessionWith(NodeHostPort, Some(Put(Put(EmptyMap, PathAB, NewProxy(Target2)),
                                         PathA, TextHandler("hello")))) }

\* The documents handed to remove_patch: the empty one, one without the
\* session, and one for every nested document of the session.
RemoveConfigs ==
    { NewServeConfig,
      [NewServeConfig EXCEPT !.foreground = Some(EmptyMap)],
      [NewServeConfig EXCEPT !.foreground = Some(Put(EmptyMap, OtherSession, SessionBase)),
                             !.unknown = Put(EmptyMap, "Services", "svc")] }
    \cup {[NewServeConfig EXCEPT
              !.foreground = Some(Put(Put(EmptyMap, OtherSession, SessionBase), OwnSession, s))] :
            s \in RemoveSessions}

\* The document remove_patch is called on: the one apply_patch left when it
\* was called before, the given one otherwise.
RemoveInput == IF IsSome(patched) THEN Unwrap(patched) ELSE given

\* remove_patch(config, session_id, host_port, path)
RemovePatchCall ==
    /\ removed = None
    /\ LET r == RemovePatch(RemoveInput, proposal.session_id, proposal.host_port, proposal.path)
       IN removed' = Some([before |-> RemoveInput, after |-> r.config, removed |-> r.removed,
                           after_apply |-> IsSome(patched)])
    /\ UNCHANGED << given, proposal, verdict, patched, document, reserialized,
                    applyVars, tcpVars, commandVars >>

NextRemove ==
    \/ ApplyPatchCall
    \/ RemovePatchCall

InitRemove ==
    /\ ApplyIdle
    /\ TcpIdle
    /\ given \in RemoveConfigs
    /\ proposal \in Proposals
    /\ verdict = None
    /\ patched = None
    /\ removed = None
    /\ document = EmptyMap
    /\ reserialized = None
    /\ CommandIdle

SpecRemove == InitRemove /\ [][NextRemove]_vars

\* The handlers a session holds in a document, as <<host:port, path, handler>>.
SessionHandlers(cfg, sid) ==
    IF ~IsSome(cfg.foreground) \/ sid \notin DOMAIN Unwrap(cfg.foreground) THEN {}
    ELSE LET session == Unwrap(cfg.foreground)[sid]
             web == IF IsSome(session.web) THEN Unwrap(session.web) ELSE EmptyMap
         IN UNION {IF IsSome(web[hp].handlers)
                   THEN {<< hp, p, Unwrap(web[hp].handlers)[p] >> :
                            p \in DOMAIN Unwrap(web[hp].handlers)}
                   ELSE {} : hp \in DOMAIN web}

\* The handlers of the session that are at the proposal's host:port and path.
AtProposal(triples) ==
    {t \in triples : t[1] = proposal.host_port /\ t[2] = proposal.path}

\* C21: remove_patch returns true exactly when the session held a handler
\* at the host:port and path, and that handler is then gone; it returns false
\* when the foreground map, the session, the host:port or the path is
\* missing; either way every other handler of the session stays as it was,
\* and so do the other sessions and the top-level fields.
C21_RemoveReportsAndKeeps ==
    IsSome(removed) =>
        LET r == Unwrap(removed)
            had == SessionHandlers(r.before, proposal.session_id)
            has == SessionHandlers(r.after, proposal.session_id)
        IN /\ r.removed <=> AtProposal(had) # {}
           /\ has = had \ AtProposal(had)
           /\ ~r.removed => has = had
           /\ r.after.web = r.before.web
           /\ r.after.unknown = r.before.unknown
           /\ \A sid \in {OtherSession} :
                 SessionHandlers(r.after, sid) = SessionHandlers(r.before, sid)

\* C21 witness: a path the session does not route was asked for while it
\* routes others: false came back; and, in another run, a routed one: true.
C21_Witness ==
    /\ IsSome(removed)
    /\ ~Unwrap(removed).removed
    /\ ~Unwrap(removed).after_apply
    /\ Cardinality(SessionHandlers(Unwrap(removed).after, proposal.session_id)) >= 2

\* The session's nested document after the call holds no empty web map and
\* no empty handler map.
NoEmptyContainers(session) ==
    /\ IsSome(session.web) => DOMAIN Unwrap(session.web) # {}
    /\ IsSome(session.web) =>
          \A hp \in DOMAIN Unwrap(session.web) :
             IsSome(Unwrap(session.web)[hp].handlers) =>
                DOMAIN Unwrap(Unwrap(session.web)[hp].handlers) # {}

\* C22: apply_patch followed by remove_patch with the same session,
\* host:port and path returns true; on an empty document the session's
\* nested document is left with no web map at all; and when the session
\* held other handlers before, exactly those are left, in their containers.
C22_ApplyThenRemove ==
    (IsSome(removed) /\ Unwrap(removed).after_apply) =>
        LET r == Unwrap(removed)
            session == Unwrap(r.after.foreground)[proposal.session_id]
            others == SessionHandlers(given, proposal.session_id)
                        \ AtProposal(SessionHandlers(given, proposal.session_id))
        IN /\ r.removed
           /\ SessionHandlers(r.after, proposal.session_id) = others
           /\ given = NewServeConfig => (session.web = None /\ NoEmptyContainers(session))
           /\ others # {} => IsSome(session.web)
           /\ \A t \in others :
                 /\ t[1] \in DOMAIN Unwrap(session.web)
                 /\ Unwrap(session.web)[t[1]].handlers # None

\* C22 witness: the route was added to the empty document and removed again.
C22_Witness ==
    /\ IsSome(removed)
    /\ Unwrap(removed).after_apply
    /\ given = NewServeConfig
    /\ Unwrap(removed).removed

\* A run in which the session held another handler at the host:port and
\* keeps it after the removal.
C22_OthersKept ==
    /\ IsSome(removed)
    /\ Unwrap(removed).after_apply
    /\ \E t \in SessionHandlers(Unwrap(removed).after, proposal.session_id) :
          t[1] = proposal.host_port

\* -------------------------------------------------------------- round trips

\* A handler, a host:port entry and a session as the daemon writes them,
\* each with a field this tool does not know.
HandlerValue == [Proxy |-> Target2, Redirect |-> "#42"]
WebValue ==
    NodeHostPort :> [Handlers |-> (PathA :> HandlerValue) @@ (PathADir :> [Text |-> "hello"]),
                     Compress |-> "gzip"]
SessionValue == [Web |-> WebValue, AllowFunnel |-> (NodeHostPort :> TRUE), Owner |-> "cli"]

\* The documents handed to the parser.
Documents ==
    { EmptyMap,
      [Services |-> "svc", ETag |-> "#42"],
      [TCP |-> ("22" :> "forward"), Web |-> WebValue, Services |-> "svc"],
      [Web |-> WebValue, Foreground |-> (OtherSession :> SessionValue), Services |-> "svc"],
      [Web |-> WebValue, AllowFunnel |-> (NodeHostPort :> TRUE),
       Foreground |-> (OtherSession :> SessionValue) @@ (OwnSession :> SessionValue),
       Services |-> "svc"],
      [Web |-> (NodeHostPort :> [Handlers |-> (PathA :> [Proxy |-> "#42"])]),
       Services |-> "svc"] }

\* The parse of the document, what is done to the result, and the value it
\* serializes to; a document that does not parse ends the call.
RoundTrip(patch) ==
    IF ~ServeConfigParses(document)
    THEN [ok |-> FALSE, patch |-> patch, value |-> EmptyMap]
    ELSE [ok |-> TRUE, patch |-> patch,
          value |->
            ConfigToValue(
                IF patch
                THEN ApplyPatch(ValueToConfig(document), proposal.session_id,
                                proposal.host_port, proposal.path, proposal.target,
                                proposal.funnel)
                ELSE ValueToConfig(document))]

\* value_to_config, then to_value
RoundTripCall ==
    /\ reserialized = None
    /\ reserialized' = Some(RoundTrip(FALSE))
    /\ UNCHANGED << given, proposal, verdict, patched, removed, document,
                    applyVars, tcpVars, commandVars >>

\* value_to_config, apply_patch, then to_value
PatchRoundTripCall ==
    /\ reserialized = None
    /\ reserialized' = Some(RoundTrip(TRUE))
    /\ UNCHANGED << given, proposal, verdict, patched, removed, document,
                    applyVars, tcpVars, commandVars >>

NextCodec ==
    \/ RoundTripCall
    \/ PatchRoundTripCall

InitCodec ==
    /\ ApplyIdle
    /\ TcpIdle
    /\ given = NewServeConfig
    /\ proposal \in Proposals
    /\ verdict = None
    /\ patched = None
    /\ removed = None
    /\ document \in Documents
    /\ reserialized = None
    /\ CommandIdle

SpecCodec == InitCodec /\ [][NextCodec]_vars

\* Every field of object b outside the known ones is in object a with the
\* same value.
UnknownKept(b, a, known) ==
    \A k \in (DOMAIN b) \ known : k \in DOMAIN a /\ a[k] = b[k]

\* The same for a host:port entry and its handlers, but for the paths in skip.
WebValueKept(b, a, skip) ==
    /\ UnknownKept(b, a, WebServerConfigFields)
    /\ "Handlers" \in DOMAIN b =>
          /\ "Handlers" \in DOMAIN a
          /\ \A p \in (DOMAIN b["Handlers"]) \ skip :
                /\ p \in DOMAIN a["Handlers"]
                /\ UnknownKept(b["Handlers"][p], a["Handlers"][p], HttpHandlerFields)

\* The same for a configuration value; skip is the handlers left out, as
\* <<host:port, path>>.
ConfigValueKept(b, a, skip) ==
    /\ UnknownKept(b, a, ServeConfigFields)
    /\ "Web" \in DOMAIN b =>
          /\ "Web" \in DOMAIN a
          /\ \A hp \in DOMAIN b["Web"] :
                /\ hp \in DOMAIN a["Web"]
                /\ WebValueKept(b["Web"][hp], a["Web"][hp],
                                {t[2] : t \in {r \in skip : r[1] = hp}})

\* The same for a whole document and the sessions in it; replaced is the
\* handlers left out, as <<session, host:port, path>>.
DocumentKept(b, a, replaced) ==
    LET of(sid) == {<< t[2], t[3] >> : t \in {r \in replaced : r[1] = sid}}
    IN /\ ConfigValueKept(b, a, {})
       /\ "Foreground" \in DOMAIN b =>
             /\ "Foreground" \in DOMAIN a
             /\ \A sid \in DOMAIN b["Foreground"] :
                   /\ sid \in DOMAIN a["Foreground"]
                   /\ ConfigValueKept(b["Foreground"][sid], a["Foreground"][sid], of(sid))

\* Some handler of the top-level document holds a number where the
\* structure has a string.
KnownFieldIllTyped ==
    /\ "Web" \in DOMAIN document
    /\ \E hp \in DOMAIN document["Web"] :
          /\ "Handlers" \in DOMAIN document["Web"][hp]
          /\ \E p \in DOMAIN document["Web"][hp]["Handlers"] :
                \E k \in (DOMAIN document["Web"][hp]["Handlers"][p]) \cap {"Proxy", "Path", "Text"} :
                   document["Web"][hp]["Handlers"][p][k] \in Numbers

PatchedHandler == << proposal.session_id, proposal.host_port, proposal.path >>

WatchIpnBusCall ==
    /\ watched = None
    /\ watched' = Some(WatchIpnBus(lines))
    /\ UNCHANGED << lines, teardownVars, checkVars, raceVars, openVars, applyVars, tcpVars, engineVars >>

NextWatch ==
    \/ WatchIpnBusCall

InitWatch ==
    /\ ApplyIdle
    /\ TcpIdle
    /\ EngineIdle
    /\ lines \in Streams
    /\ watched = None
    /\ TeardownIdle
    /\ OpenIdle
    /\ CheckIdle
    /\ RaceIdle

SpecWatch == InitWatch /\ [][NextWatch]_vars

\* The accepted spellings of the session-identifier field.
Spellings == {"SessionID", "session_id", "sessionId"}

\* The non-empty session identifiers a line carries under some spelling.
IdsOf(line) ==
    IF line.kind # "event" THEN {}
    ELSE {line.fields[n] : n \in {m \in Spellings \cap DOMAIN line.fields :
                                        line.fields[m] \notin Numbers \cup {""}}}

\* The lines of the stream that carry a session identifier.
WithId == {i \in DOMAIN lines : IdsOf(lines[i]) # {}}

\* C24: when some line of the stream is an event that carries a non-empty
\* session identifier under an accepted spelling, watch_ipn_bus returns the
\* identifier of the first such line, whatever the lines before it are.
C24_FirstIdReturned ==
    (IsSome(watched) /\ WithId # {}) =>
        LET first == CHOOSE i \in WithId : \A j \in WithId : i <= j
        IN /\ Unwrap(watched).kind = "Ok"
           /\ Unwrap(watched).id \in IdsOf(lines[first])

\* The same when every line before the first one with an identifier is
\* blank or parses as JSON, and the identifier is under the first spelling
\* that holds a string: what the code does return the identifier for.
C24_FirstIdAfterJsonLines ==
    (IsSome(watched) /\ WithId # {}) =>
        LET first == CHOOSE i \in WithId : \A j \in WithId : i <= j
        IN (/\ \A j \in 1..(first - 1) : lines[j].kind \in {"blank", "scalar", "event"}
            /\ IsSome(ParseSessionId(lines[first])))
           => /\ Unwrap(watched).kind = "Ok"
              /\ Unwrap(watched).id \in IdsOf(lines[first])

\* ----------------------------------------------------- the backend's life

\* Backend::remove: the stored handle is taken, closed and dropped.
Remove ==
    /\ pc \in {"OpeningStream", "Committed", "Failed"}
    /\ removes < MaxRemoves
    /\ removes' = removes + 1
    /\ remove_result' = Some(NoError)
    /\ watch' = None
    /\ log' = log \o RemoveRequests
    /\ IF IsSome(watch)
       THEN /\ drain' = Drop(Close(Handle(drain_task, drain))).task
            /\ drain_task' = Drop(Close(Handle(drain_task, drain))).drain_task
       ELSE UNCHANGED << drain, drain_task >>
    /\ UNCHANGED << daemonVars, inputVars, pc, attempt, session_id, status, etag, config,
                    result, lease, fetched, written, tcpVars, engineVars, streamVars,
                    openVars, checkVars, raceVars >>

\* The daemon ends the event stream: the drain task reads to the end and
\* finishes.
StreamEnd ==
    /\ drain = "running"
    /\ drain' = "finished"
    /\ UNCHANGED << daemonVars, inputVars, pc, attempt, session_id, status, etag, config,
                    result, lease, watch, drain_task, log, fetched, written, tcpVars,
                    engineVars, commandVars >>

\* The command returns and the backend is dropped, the stored handle with it.
DropBackend ==
    /\ pc \in {"Committed", "Failed"}
    /\ pc' = "Dropped"
    /\ watch' = None
    /\ IF IsSome(watch)
       THEN /\ drain' = Drop(Handle(drain_task, drain)).task
            /\ drain_task' = Drop(Handle(drain_task, drain)).drain_task
       ELSE UNCHANGED << drain, drain_task >>
    /\ UNCHANGED << daemonVars, inputVars, attempt, session_id, status, etag, config,
                    result, lease, log, fetched, written, tcpVars, engineVars, commandVars >>

NextBackend ==
    \/ OpenStream
    \/ ProbeLocalTarget
    \/ FetchStatus
    \/ GetServeConfig
    \/ SetServeConfig
    \/ Remove
    \/ StreamEnd
    \/ DropBackend

InitBackend ==
    /\ doc \in InitialDocs
    /\ rev = 1
    /\ spec \in [local_target : {Target1}, https_port : {HttpsPort},
                 path : {PathA, PathAB}, funnel : {TRUE}]
    /\ force = FALSE
    /\ ApplyStart
    /\ TcpIdle
    /\ EngineIdle
    /\ CommandIdle

SpecBackend == InitBackend /\ [][NextBackend]_vars

\* The streams that are read to their end without a session id: every line
\* is blank or JSON, and none yields an id.
EndWithoutId ==
    {s \in Streams :
        \A i \in DOMAIN s :
           /\ s[i].kind \in {"blank", "scalar", "event"}
           /\ ParseSessionId(s[i]) = None}

\* The error apply returns for a stream without a session id.
MissingSessionIdError == Error("ApplyFailed", "watch-ipn-bus did not provide a session id")

\* C25: a stream read to its end without a session id makes watch_ipn_bus
\* return MissingSessionId, an error no other stream and no failed request
\* gives; apply then fails with the error made from it, having sent nothing
\* but the stream request: no probe, no status request, no read or write of
\* the configuration, no session id, no handle stored and no drain task.
C25_MissingSessionId ==
    /\ \A s \in Streams :
          WatchIpnBus(s) = WatchError("MissingSessionId") <=> s \in EndWithoutId
    /\ \A e \in TransportErrors : MapTransportError(e) # MissingSessionIdError
    /\ MapTransportError([kind |-> "MissingSessionId", status |-> 200]) = MissingSessionIdError
    /\ result = MissingSessionIdError =>
          /\ pc \in {"Failed", "Dropped"}
          /\ log = << Entry("watch", 200) >>
          /\ session_id = None
          /\ status = None
          /\ fetched = None /\ written = None
          /\ watch = None
          /\ drain = "none"
          /\ drain_task = None
          /\ rev = 1

\* C25 witness: apply failed on a stream that ended without a session id.
C25_Witness ==
    /\ result = MissingSessionIdError
    /\ pc = "Failed"
    /\ EndWithoutId # {}

\* The handle of the backend's stream with its drain task.
CurrentHandle == Handle(drain_task, drain)

\* What holds of the handle in every state: closing it twice, or closing and
\* dropping it, is the same as closing it once; a close leaves no task in the
\* handle and no task running; a finished task stays finished; a running
\* task is still in its handle; Backend::remove has not failed.
HandleClosesOnce ==
    /\ Close(Close(CurrentHandle)) = Close(CurrentHandle)
    /\ Drop(Close(CurrentHandle)) = Close(CurrentHandle)
    /\ Close(Drop(CurrentHandle)) = Drop(CurrentHandle)
    /\ Close(CurrentHandle).drain_task = None
    /\ Close(CurrentHandle).task # "running"
    /\ drain = "finished" => Close(CurrentHandle).task = "finished"
    /\ drain = "running" => IsSome(drain_task)
    /\ remove_result \in {None, Some(NoError)}

\* C26: closing the handle is idempotent and safe.  The first close, by
\* Backend::remove or by the drop of the handle, takes the task out of the
\* handle and cancels it; a close or a drop after that changes nothing; a
\* task that had finished because the stream ended stays finished and the
\* close of its handle is no error.
C26_CloseIdempotent ==
    /\ []HandleClosesOnce
    /\ [][(removes' = removes + 1 \/ pc' = "Dropped") =>
             /\ watch' = None
             /\ drain_task' = None
             /\ drain' # "running"
             /\ drain = "finished" => drain' = "finished"
             /\ drain_task = None => drain' = drain]_vars

\* C26 witness: the stream ended, then the handle was closed by remove,
\* dropped, and remove was called once more.
C26_Witness ==
    /\ removes = 2
    /\ drain = "finished"
    /\ drain_task = None
    /\ pc = "Committed"

\* This step is a call of Backend::remove.
RemoveStep == removes' = removes + 1

\* C27: Backend::remove sends no request and leaves the document alone: it
\* takes the stored handle and closes it, nothing else changes, the route it
\* had committed stays in the document; it returns success whether a handle
\* was stored or not.
C27_RemoveOnlyClosesHandle ==
    [][RemoveStep =>
          /\ log' = log
          /\ doc' = doc /\ rev' = rev
          /\ remove_result' = Some(NoError)
          /\ watch' = None
          /\ IF IsSome(watch)
             THEN << drain_task', drain' >> = << None, Abort(drain) >>
             ELSE UNCHANGED << drain_task, drain >>
          /\ UNCHANGED << pc, result, lease, session_id, fetched, written, config, etag >>]_vars

\* C27 witness: remove was called twice after a successful apply, the second
\* time with no handle stored, and the committed route is still there.
C27_Witness ==
    /\ removes = 2
    /\ pc = "Committed"
    /\ watch = None
    /\ remove_result = Some(NoError)
    /\ IsSome(doc.foreground)
    /\ OwnSession \in DOMAIN Unwrap(doc.foreground)
    /\ drain = "aborted"

\* ---------------------------------------------------------- the open command

\* The events an instance emits.
Started == [event |-> "started", reason |-> ""]
Stopped(reason) == [event |-> "stopped", reason |-> reason]

\* An instance that is through: it returned, exited or was killed.
Ended == {"Stopped", "Failed", "Exited", "Dead"}

\* pid_is_alive
PidIsAlive(pid) == pid \in Procs /\ opc[pid] \notin Ended

\* try_lock_exclusive succeeds when no open file holds the lock.
TryLockExclusive == lock_owner = None

\* The Conflict error of LockGuard::acquire.
LockConflict(pid) ==
    IF IsSome(pid)
    THEN Error("Conflict", "Another funnelctl instance is running (PID)")
    ELSE Error("Conflict", "Another funnelctl instance is running")

\* An interrupt during teardown that is not listened for.
AfterSecondInterruptIgnored == "TearingDown"

\* std::process::exit(130) in the select over cleanup and the second ctrl_c.
AfterSecondInterrupt == "Exited"

\* LockGuard::acquire up to the first try_lock_exclusive: the lock is taken
\* and the process id written, or the process id in the file is read.
Acquire(p) ==
    /\ opc[p] = "Start"
    /\ IF TryLockExclusive
       THEN /\ lock_owner' = Some(p)
            /\ lock_file' = Some(p)
            /\ opc' = [opc EXCEPT ![p] = "Applying"]
            /\ UNCHANGED seen_pid
       ELSE /\ seen_pid' = [seen_pid EXCEPT ![p] = lock_file]
            /\ opc' = [opc EXCEPT ![p] = "LockBusy"]
            /\ UNCHANGED << lock_owner, lock_file >>
    /\ UNCHANGED << ttl, stop_reason, cleaned, events, signals, streamVars, teardownVars, checkVars, raceVars,
                    applyVars, tcpVars, engineVars >>

\* The rest of LockGuard::acquire: the lock of a dead holder is taken when
\* it is free by now, anything else is a Conflict and the command fails.
AcquireRetry(p) ==
    /\ opc[p] = "LockBusy"
    /\ IF IsSome(seen_pid[p]) /\ ~PidIsAlive(Unwrap(seen_pid[p])) /\ TryLockExclusive
       THEN /\ lock_owner' = Some(p)
            /\ lock_file' = Some(p)
            /\ opc' = [opc EXCEPT ![p] = "Applying"]
            /\ UNCHANGED events
       ELSE /\ opc' = [opc EXCEPT ![p] = "Failed"]
            /\ events' = [events EXCEPT ![p] = Append(@, LockConflict(seen_pid[p]))]
            /\ UNCHANGED << lock_owner, lock_file >>
    /\ UNCHANGED << seen_pid, ttl, stop_reason, cleaned, signals, streamVars, teardownVars, checkVars, raceVars,
                    applyVars, tcpVars, engineVars >>

\* backend.apply returns inside the block that holds the guard: the guard is
\* dropped, and the started event goes out or the command fails.
ApplyReturns(p) ==
    /\ opc[p] = "Applying"
    /\ lock_owner' = IF lock_owner = Some(p) THEN None ELSE lock_owner
    /\ \/ /\ opc' = [opc EXCEPT ![p] = "Up"]
          /\ events' = [events EXCEPT ![p] = Append(@, Started)]
       \/ /\ opc' = [opc EXCEPT ![p] = "Failed"]
          /\ UNCHANGED events
    /\ UNCHANGED << lock_file, seen_pid, ttl, stop_reason, cleaned, signals, streamVars,
                    teardownVars, checkVars, raceVars, applyVars, tcpVars, engineVars >>

\* The instance is killed while it holds the lock: the system releases the
\* lock, the process id stays in the file.
Killed(p) ==
    /\ opc[p] = "Applying"
    /\ opc' = [opc EXCEPT ![p] = "Dead"]
    /\ lock_owner' = IF lock_owner = Some(p) THEN None ELSE lock_owner
    /\ UNCHANGED << lock_file, seen_pid, ttl, stop_reason, cleaned, events, signals,
                    streamVars, teardownVars, checkVars, raceVars, applyVars, tcpVars, engineVars >>

\* wait_for_stop: the interrupt comes first.
FirstInterrupt(p) ==
    /\ opc[p] = "Up"
    /\ signals' = [signals EXCEPT ![p] = @ + 1]
    /\ stop_reason' = [stop_reason EXCEPT ![p] = Some("UserInterrupt")]
    /\ opc' = [opc EXCEPT ![p] = "TearingDown"]
    /\ UNCHANGED << lock_owner, lock_file, seen_pid, ttl, cleaned, events, streamVars,
                    teardownVars, checkVars, raceVars, applyVars, tcpVars, engineVars >>

\* wait_for_stop: the TTL runs out first.
TtlExpires(p) ==
    /\ opc[p] = "Up"
    /\ ttl[p]
    /\ stop_reason' = [stop_reason EXCEPT ![p] = Some("TtlExpired")]
    /\ opc' = [opc EXCEPT ![p] = "TearingDown"]
    /\ UNCHANGED << lock_owner, lock_file, seen_pid, ttl, cleaned, events, signals,
                    streamVars, teardownVars, checkVars, raceVars, applyVars, tcpVars, engineVars >>

\* The select over cleanup and the second ctrl_c: the interrupt comes first.
SecondInterrupt(p) ==
    /\ opc[p] = "TearingDown"
    /\ signals' = [signals EXCEPT ![p] = @ + 1]
    /\ opc' = [opc EXCEPT ![p] = AfterSecondInterrupt]
    /\ UNCHANGED << lock_owner, lock_file, seen_pid, ttl, stop_reason, cleaned, events,
                    streamVars, teardownVars, checkVars, raceVars, applyVars, tcpVars, engineVars >>

\* The select over cleanup and the second ctrl_c: backend.remove returns
\* first, and the stopped event goes out.
TeardownDone(p) ==
    /\ opc[p] = "TearingDown"
    /\ cleaned' = [cleaned EXCEPT ![p] = TRUE]
    /\ events' = [events EXCEPT ![p] = Append(@, Stopped(Unwrap(stop_reason[p])))]
    /\ opc' = [opc EXCEPT ![p] = "Stopped"]
    /\ UNCHANGED << lock_owner, lock_file, seen_pid, ttl, stop_reason, signals, streamVars,
                    teardownVars, checkVars, raceVars, applyVars, tcpVars, engineVars >>

NextOpen ==
    \/ \E p \in Procs : Acquire(p)
    \/ \E p \in Procs : AcquireRetry(p)
    \/ \E p \in Procs : ApplyReturns(p)
    \/ \E p \in Procs : Killed(p)
    \/ \E p \in Procs : FirstInterrupt(p)
    \/ \E p \in Procs : TtlExpires(p)
    \/ \E p \in Procs : SecondInterrupt(p)
    \/ \E p \in Procs : TeardownDone(p)

InitOpen ==
    /\ ApplyIdle
    /\ TcpIdle
    /\ EngineIdle
    /\ StreamIdle
    /\ TeardownIdle
    /\ CheckIdle
    /\ RaceIdle
    /\ opc = [p \in Procs |-> "Start"]
    /\ lock_owner = None
    /\ lock_file \in {None, Some("p0")}
    /\ seen_pid = [p \in Procs |-> None]
    /\ ttl \in [Procs -> BOOLEAN]
    /\ stop_reason = [p \in Procs |-> None]
    /\ cleaned = [p \in Procs |-> FALSE]
    /\ events = [p \in Procs |-> << >>]
    /\ signals = [p \in Procs |-> 0]

SpecOpen == InitOpen /\ [][NextOpen]_vars

\* C28: once the tunnel is up, the first interrupt or the end of the TTL,
\* whichever comes first, ends the wait with that reason and starts
\* teardown; an interrupt during teardown makes the process exit at once,
\* with teardown not completed and no stopped event; when teardown completes
\* first the stopped event goes out with the reason that ended the wait.
C28_InterruptAndTeardown ==
    /\ [](\A p \in Procs :
            /\ opc[p] = "Up" => (stop_reason[p] = None /\ events[p] = << Started >>)
            /\ opc[p] = "TearingDown" =>
                  /\ events[p] = << Started >> /\ ~cleaned[p]
                  /\ stop_reason[p] =
                        IF signals[p] = 1 THEN Some("UserInterrupt") ELSE Some("TtlExpired")
            /\ opc[p] = "Exited" => (events[p] = << Started >> /\ ~cleaned[p])
            /\ opc[p] = "Stopped" =>
                  /\ cleaned[p]
                  /\ events[p] = << Started, Stopped(Unwrap(stop_reason[p])) >>)
    /\ [][\A p \in Procs :
            /\ (opc[p] = "Up" /\ opc'[p] # "Up") => opc'[p] = "TearingDown"
            /\ (opc[p] = "Up" /\ signals'[p] # signals[p]) =>
                  (opc'[p] = "TearingDown" /\ stop_reason'[p] = Some("UserInterrupt"))
            /\ (opc[p] = "TearingDown" /\ signals'[p] # signals[p]) =>
                  /\ opc'[p] = "Exited"
                  /\ events'[p] = events[p]
                  /\ cleaned'[p] = cleaned[p]
            /\ (opc[p] = "TearingDown" /\ opc'[p] # "TearingDown") =>
                  opc'[p] \in {"Exited", "Stopped"}]_vars

\* C28 witness: one instance was interrupted twice and exited in teardown,
\* the other ran to the end of its TTL and stopped.
C28_Witness ==
    /\ opc["p1"] = "Exited"
    /\ signals["p1"] = 2
    /\ opc["p2"] = "Stopped"
    /\ stop_reason["p2"] = Some("TtlExpired")

\* An instance is inside backend.apply or backend.remove.
InApplyOrRemove(p) == opc[p] \in {"Applying", "TearingDown"}

\* C29: the lock serializes apply and remove: an instance inside apply or
\* remove holds the lock, no two instances are inside apply or remove at
\* once, and the lock has one holder at most.
C29_ApplyAndRemoveSerialized ==
    /\ \A p \in Procs : InApplyOrRemove(p) => lock_owner = Some(p)
    /\ \A p, q \in Procs : (p # q /\ InApplyOrRemove(p)) => ~InApplyOrRemove(q)

\* What the lock does give: an instance inside apply holds it, so no two
\* instances are inside apply at once; a holder that was killed does not
\* keep the others out; an instance that finds a live holder fails.
C29_ApplySerialized ==
    /\ \A p \in Procs : opc[p] = "Applying" => lock_owner = Some(p)
    /\ \A p, q \in Procs : (p # q /\ opc[p] = "Applying") => opc[q] # "Applying"
    /\ IsSome(lock_owner) => (lock_file = lock_owner /\ PidIsAlive(Unwrap(lock_owner)))

\* ------------------------------------------------------- the result of apply

\* The one route of this run: the requested path at the host:port, to a
\* proxy of the local target.
OwnRoute == << HostPortOf(Unwrap(status), spec), spec.path, NewProxy(spec.local_target) >>

RandomPath == << "/", "a", "a", "a", "a", "/", "a", "a", "a", "a", "a", "a", "a", "a" >>

\* The paths handed to validate_path: every string over PathChars up to MaxPathLen.
PathInputs == SeqsUpTo(PathChars, MaxPathLen)

\* The TTLs handed to validate_ttl: around both limits, with and without a
\* fraction of a second.
TtlInputs ==
    {Duration(secs, nanos) :
        secs \in {0, MinTtlSecs - 1, MinTtlSecs, WarnTtlSecs - 1, WarnTtlSecs, WarnTtlSecs + 1},
        nanos \in {0, 1}}

\* resolve_bind: the address must parse and, without --allow-non-loopback,
\* be a loopback address.
ResolveBind(bind, allow_non_loopback) ==
    IF bind \notin {"127.0.0.1", "0.0.0.0"}
        THEN InvalidArgument("Invalid bind address")
    ELSE IF ~allow_non_loopback /\ bind # "127.0.0.1"
        THEN InvalidArgument("Non-loopback bind requires --allow-non-loopback")
    ELSE NoError

\* Arguments with which every check passes.
GoodArgs ==
    [port |-> 8080, https_port |-> HttpsPort, bind |-> "127.0.0.1",
     allow_non_loopback |-> FALSE, path |-> None, ttl |-> None]

\* The command lines of the model: every path with the rest good, every TTL
\* with the rest good, and one bad port, HTTPS port and bind address each.
ArgInputs ==
    {[GoodArgs EXCEPT !.path = Some(p)] : p \in PathInputs}
    \cup {[GoodArgs EXCEPT !.ttl = Some(d)] : d \in TtlInputs}
    \cup {[GoodArgs EXCEPT !.ttl = Some(d), !.path = Some(PathA)] : d \in TtlInputs}
    \cup {GoodArgs, [GoodArgs EXCEPT !.port = 0], [GoodArgs EXCEPT !.https_port = 80],
          [GoodArgs EXCEPT !.bind = "0.0.0.0"], [GoodArgs EXCEPT !.bind = "nowhere"],
          [GoodArgs EXCEPT !.bind = "0.0.0.0", !.allow_non_loopback = TRUE]}

\* What run made of the arguments: the error it returned, the warnings it
\* emitted, and the TunnelSpec it handed to the backend.
Checked(error, warnings, tunnel) == [error |-> error, warnings |-> warnings, spec |-> tunnel]

\* OpenCommand::run up to the call of backend.apply: the checks in their
\* order, the warnings emitted on the way, the TunnelSpec built.
CheckArgs(a) ==
    LET path_result == ValidatePath(IF IsSome(a.path) THEN Unwrap(a.path) ELSE RandomPath)
        ttl_warnings == IF IsSome(a.ttl) THEN ValidateTtl(Unwrap(a.ttl)).warnings ELSE << >>
    IN IF ValidatePort(a.port) # NoError THEN Checked(ValidatePort(a.port), << >>, None)
       ELSE IF ValidateHttpsPort(a.https_port) # NoError
           THEN Checked(ValidateHttpsPort(a.https_port), << >>, None)
       ELSE IF ResolveBind(a.bind, a.allow_non_loopback) # NoError
           THEN Checked(ResolveBind(a.bind, a.allow_non_loopback), << >>, None)
       ELSE IF path_result.error # NoError THEN Checked(path_result.error, << >>, None)
       ELSE IF IsSome(a.ttl) /\ ValidateTtl(Unwrap(a.ttl)).error # NoError
           THEN Checked(ValidateTtl(Unwrap(a.ttl)).error, path_result.warnings, None)
       ELSE Checked(NoError, path_result.warnings \o ttl_warnings,
                    Some([local_target |-> a.bind, port |-> a.port,
                          https_port |-> a.https_port,
                          path |-> Unwrap(path_result.normalized_path), funnel |-> TRUE]))

ValidateArgs ==
    /\ IsSome(args)
    /\ validated = None
    /\ validated' = Some(CheckArgs(Unwrap(args)))
    /\ UNCHANGED << args, racers, streamVars, teardownVars, openVars, applyVars, tcpVars,
                    engineVars >>

NextArgs == ValidateArgs

InitArgs ==
    /\ ApplyIdle
    /\ TcpIdle
    /\ EngineIdle
    /\ StreamIdle
    /\ TeardownIdle
    /\ OpenIdle
    /\ RaceIdle
    /\ args \in {Some(a) : a \in ArgInputs}
    /\ validated = None

SpecArgs == InitArgs /\ [][NextArgs]_vars

\* The path given on the command line, when the command has run on it alone.
GivenPath == Unwrap(Unwrap(args).path)
PathChecked ==
    /\ IsSome(args) /\ IsSome(validated)
    /\ IsSome(Unwrap(args).path) /\ Unwrap(args).ttl = None

\* The segments of a path that are not empty, in order.
Names(path) == SelectSeq(SplitSlash(path), LAMBDA seg : seg # << >>)

\* C31: an accepted path comes back with every run of slashes collapsed to
\* one slash, a slash at the end exactly when the input ended with one, and
\* nothing else changed; a normalized path shorter than 8 gives the
\* PathTooShort warning and no error.
C31_PathNormalized ==
    (PathChecked /\ Unwrap(validated).error = NoError) =>
        LET out == Unwrap(validated).spec[1].path
        IN /\ out[1] = "/"
           /\ \A i \in 1..(Len(out) - 1) : ~(out[i] = "/" /\ out[i + 1] = "/")
           /\ Names(out) = Names(GivenPath)
           /\ (out[Len(out)] = "/") = (GivenPath[Len(GivenPath)] = "/")
           /\ Unwrap(validated).warnings =
                 IF Len(out) < 8 THEN << PathTooShort(out) >> ELSE << >>

\* C31 witness: //a///a/ was accepted and came back as /a/a/, with the warning.
C31_Witness ==
    /\ PathChecked
    /\ GivenPath = << "/", "/", "a", "/", "/", "/", "a", "/" >>
    /\ Unwrap(validated).spec = Some([local_target |-> "127.0.0.1", port |-> 8080,
                                      https_port |-> HttpsPort,
                                      path |-> << "/", "a", "/", "a", "/" >>, funnel |-> TRUE])
    /\ Len(Unwrap(validated).warnings) = 1

\* C31 witness of the length limit: a path of eight characters, no warning.
C31_LongEnough ==
    /\ PathChecked
    /\ Unwrap(validated).error = NoError
    /\ Len(Unwrap(validated).spec[1].path) = 8
    /\ Unwrap(validated).warnings = << >>

\* A path the command must refuse: no slash at the start, a control
\* character, or a segment that is "..".
MustRefuse(path) ==
    \/ path = << >>
    \/ path[1] # "/"
    \/ \E i \in 1..Len(path) : path[i] = "TAB"
    \/ \E i \in 1..(Len(path) - 1) :
          /\ path[i] = "." /\ path[i + 1] = "."
          /\ (i = 1 \/ path[i - 1] = "/")
          /\ (i + 1 = Len(path) \/ path[i + 2] = "/")

\* C32: a path is refused with an invalid-argument error exactly when it
\* does not start with a slash, holds a control character or has a segment
\* equal to ".."; ".." inside a longer segment is accepted; a refused path
\* is never handed to the backend.
C32_PathRefused ==
    PathChecked =>
        /\ (Unwrap(validated).error.kind = "InvalidArgument") = MustRefuse(GivenPath)
        /\ (Unwrap(validated).error = NoError) = ~MustRefuse(GivenPath)
        /\ MustRefuse(GivenPath) => Unwrap(validated).spec = None
        /\ ~MustRefuse(GivenPath) => IsSome(Unwrap(validated).spec)

\* C32 witness: /a..a was accepted and handed on.
C32_Witness ==
    /\ PathChecked
    /\ GivenPath = << "/", "a", ".", ".", "a" >>
    /\ IsSome(Unwrap(validated).spec)

\* C32 witness of the refusal: /a/.. was refused.
C32_DotDotRefused ==
    /\ PathChecked
    /\ GivenPath = << "/", "a", "/", ".", "." >>
    /\ Unwrap(validated).error.kind = "InvalidArgument"
    /\ Unwrap(validated).spec = None

\* The TTL given on the command line, when the command has run on it alone.
TtlChecked ==
    /\ IsSome(args) /\ IsSome(validated)
    /\ IsSome(Unwrap(args).ttl) /\ Unwrap(args).path = None

\* C33: a TTL below 30 s is refused; a TTL from 30 s up to, not including,
\* 300 s is accepted with exactly one too-short warning; a TTL of 300 s or
\* more is accepted with no warning; the accepted TTL is the one given.
C33_TtlLimits ==
    /\ TtlChecked =>
          LET given_ttl == Unwrap(Unwrap(args).ttl)
              out == Unwrap(validated)
          IN /\ given_ttl.secs < 30 => (out.error.kind = "InvalidArgument" /\ out.spec = None)
             /\ (given_ttl.secs >= 30 /\ given_ttl.secs < 300) =>
                   (out.error = NoError /\ out.warnings = << TtlTooShort(given_ttl) >>)
             /\ given_ttl.secs >= 300 => (out.error = NoError /\ out.warnings = << >>)
    /\ \A d \in TtlInputs :
          ValidateTtl(d).error = NoError => ValidateTtl(d).ttl = Some(d)

\* C33 witness: a TTL a little over 299 s was accepted with the warning.
C33_Witness ==
    /\ TtlChecked
    /\ Unwrap(Unwrap(args).ttl) = Duration(299, 1)
    /\ Unwrap(validated).error = NoError
    /\ Len(Unwrap(validated).warnings) = 1

\* ---------------------------------------------- the scan of the sessions

\* Documents that hold a session already: the caller's own or another one,
\* with the route apply is asked for, the same path to another target, or a
\* path that does not overlap.
ScanDocs ==
    {ApplyPatch(NewServeConfig, s, NodeHostPort, m[1], m[2], m[3]) :
        s \in {OwnSession, OtherSession},
        m \in {<< PathA, Target1, TRUE >>, << PathA, Target1, FALSE >>,
               << PathA, Target2, TRUE >>, << PathAB, Target1, TRUE >>}}

\* apply called for /a at the first target, on a document that holds a session.
InitScan ==
    /\ doc \in ScanDocs
    /\ rev = 1
    /\ spec \in [local_target : {Target1}, https_port : {HttpsPort}, path : {PathA},
                 funnel : BOOLEAN]
    /\ force \in BOOLEAN
    /\ ApplyStart
    /\ TcpIdle
    /\ EngineIdle
    /\ CommandIdle

SpecScan == InitScan /\ [][Next]_vars

\* apply has failed with a Conflict on the document it fetched.
FailedWithConflict ==
    /\ pc = "Failed"
    /\ result.kind = "Conflict"
    /\ IsSome(fetched)
    /\ IsSome(status)

\* The verdicts detect_conflicts gives for the route on a document.
VerdictsOn(cfg) ==
    DetectConflicts(cfg, HostPortOf(Unwrap(status), spec), spec.path, spec.local_target,
                    spec.funnel)

\* The sessions of the fetched document.
FetchedSessions ==
    LET cfg == Unwrap(fetched).response.config
    IN IF IsSome(cfg.foreground) THEN Unwrap(cfg.foreground) ELSE EmptyMap

\* C34: the scan of the sessions leaves the caller's own session out: when
\* apply fails with a Conflict, the top-level document or a session other
\* than its own accounts for it.
C34_OwnSessionSkipped ==
    FailedWithConflict =>
        \/ \E v \in VerdictsOn(Unwrap(fetched).response.config) : IsConflict(v)
        \/ \E s \in DOMAIN FetchedSessions \ {Unwrap(session_id)} :
              \E v \in VerdictsOn(FetchedSessions[s]) : v # NoConflict

\* C35: a session's nested document is judged as the top-level document is:
\* when apply fails with a Conflict, detect_conflicts gave a conflict for
\* the top-level document or for a session; the same path with the same
\* target in a session, an idempotent match or no conflict, does not.
C35_SessionsJudgedAsTopLevel ==
    FailedWithConflict =>
        \/ \E v \in VerdictsOn(Unwrap(fetched).response.config) : IsConflict(v)
        \/ \E s \in DOMAIN FetchedSessions \ {Unwrap(session_id)} :
              \E v \in VerdictsOn(FetchedSessions[s]) : IsConflict(v)
        \/ Unwrap(session_id) \in DOMAIN FetchedSessions

\* --------------------------------------------------------- concurrent applies

\* The sessions that apply at the same time, each through its own backend.
Sessions == {OwnSession, OtherSession}

\* What the sessions ask for: any path, either target, either funnel flag,
\* all on the node's host:port.
RaceSpecs ==
    [local_target : Targets, https_port : {HttpsPort}, path : Paths, funnel : BOOLEAN]

\* A session at the head of apply's loop, its stream open and the
\* prerequisites met.
Racer(sp) ==
    [pc |-> "ConflictCheckLoop", attempt |-> 0, etag |-> None, config |-> NewServeConfig,
     spec |-> sp]

\* One iteration of a session's loop up to the write: the read, the two
\* conflict checks without force, the patch.
RaceGet(s) ==
    /\ racers[s].pc = "ConflictCheckLoop"
    /\ LET response == [etag |-> Some(rev), config |-> doc]
           me == racers[s]
       IN \E checked \in CheckConflicts(response.config, NodeHostPort, me.spec, FALSE) :
             racers' =
                [racers EXCEPT ![s] =
                    IF checked # NoError
                    THEN [me EXCEPT !.pc = "Failed", !.attempt = @ + 1]
                    ELSE [me EXCEPT
                            !.pc = "Writing",
                            !.attempt = @ + 1,
                            !.etag = EtagToSend(response, me.etag),
                            !.config = ApplyPatch(response.config, s, NodeHostPort,
                                                  me.spec.path, me.spec.local_target,
                                                  me.spec.funnel)]]
    /\ UNCHANGED << applyVars, tcpVars, engineVars, streamVars, teardownVars, openVars,
                    checkVars >>

\* A session's write and the daemon's answer: accepted when the tag is the
\* current revision, 412 otherwise, and then another iteration unless this
\* was the last attempt.
RaceSet(s) ==
    /\ racers[s].pc = "Writing"
    /\ LET me == racers[s]
           request == SetServeConfigRequest(me.config, WriteTag(me.etag))
       IN IF DaemonAccepts(request, rev)
          THEN /\ doc' = request.body
               /\ rev' = rev + 1
               /\ racers' = [racers EXCEPT ![s] = [me EXCEPT !.pc = "Committed"]]
          ELSE /\ racers' =
                     [racers EXCEPT ![s] =
                         [me EXCEPT !.pc = IF MayRetry(me.attempt)
                                           THEN "ConflictCheckLoop" ELSE "Failed"]]
               /\ UNCHANGED << doc, rev >>
    /\ UNCHANGED << spec, force, pc, attempt, session_id, status, etag, config, result, lease,
                    watch, drain, drain_task, log, fetched, written, tcpVars, engineVars,
                    streamVars, teardownVars, openVars, checkVars >>

NextRace ==
    \/ \E s \in Sessions : RaceGet(s)
    \/ \E s \in Sessions : RaceSet(s)

InitRace ==
    /\ doc \in InitialDocs
    /\ rev = 1
    /\ spec = [local_target |-> Target1, https_port |-> HttpsPort,
               path |-> PathA, funnel |-> TRUE]
    /\ force = FALSE
    /\ ApplyStart
    /\ TcpIdle
    /\ EngineIdle
    /\ StreamIdle
    /\ TeardownIdle
    /\ OpenIdle
    /\ CheckIdle
    /\ racers \in [Sessions -> {Racer(sp) : sp \in RaceSpecs}]

SpecRace == InitRace /\ [][NextRace]_vars

\* The routes the sessions hold in the daemon's document, as
\* <<session, host:port, path, handler>>.
HeldRoutes ==
    UNION {{<< s, t[1], t[2], t[3] >> : t \in SessionHandlers(doc, s)} : s \in Sessions}

\* One path ends with a slash and is a prefix of the other, character by character.
Mounts(p, q) ==
    /\ Len(p) > 0 /\ p[Len(p)] = "/"
    /\ Len(p) <= Len(q)
    /\ SubSeq(q, 1, Len(p)) = p

\* C36 as stated: no two sessions hold, at one host:port, the same path or
\* two paths of which one ends with a slash and is a prefix of the other.
C36_NoTwoSessionsOverlap ==
    \A a, b \in HeldRoutes :
        (a[1] # b[1] /\ a[2] = b[2]) => (a[3] # b[3] /\ ~Mounts(a[3], b[3]))

\* C36, amended: no two sessions hold, at one host:port, the same path to
\* different targets, or two different paths of which one ends with a slash
\* and is a prefix of the other; the same path to the same target is held
\* by two sessions only when their funnel flags are not both true.
C36_NoTwoSessionsClash ==
    \A a, b \in HeldRoutes :
        (a[1] # b[1] /\ a[2] = b[2]) =>
            /\ a[3] = b[3] =>
                  /\ a[4] = b[4]
                  /\ ~(racers[a[1]].spec.funnel /\ racers[b[1]].spec.funnel)
            /\ a[3] # b[3] => ~Mounts(a[3], b[3])

\* C36 witness: both sessions committed, one of them on its second attempt,
\* with paths that do not overlap.
C36_Witness ==
    /\ \A s \in Sessions : racers[s].pc = "Committed"
    /\ \E s \in Sessions : racers[s].attempt = 2
    /\ racers[OwnSession].spec.path # racers[OtherSession].spec.path
    /\ Cardinality(HeldRoutes) = 2

\* -------------------------------------------------- the stream and the lease

\* apply has returned an error after the stream gave it a session id.
FailedAfterStream == pc = "Failed" /\ IsSome(session_id)

\* C37: the stream lives as long as the lease: when apply ends in an error
\* after the stream was opened, the handle is not kept and its drain task
\* does not run on; when apply succeeds the handle is stored, and its
\* drain task is not aborted before remove is called.
C37_StreamLivesWithLease ==
    /\ FailedAfterStream => (watch = None /\ drain_task = None /\ drain # "running")
    /\ (pc = "Committed" /\ removes = 0) => (IsSome(watch) /\ drain # "aborted")

\* What holds on the error paths inside the loop and before it.
C37_DiscardedBeforeStore ==
    (FailedAfterStream /\ result.context # "Failed to build URL") =>
        (watch = None /\ drain_task = None /\ drain # "running")

\* ------------------------------------------------------------------ doctor

\* One line of the doctor's report.
CheckResult(name, passed, error_code) ==
    [name |-> name, passed |-> passed, error_code |-> error_code]

\* check_version
CheckVersion(st) ==
    IF IsSome(st.version) /\ VersionSupported(Unwrap(st.version))
    THEN CheckResult("tailscaled version", TRUE, None)
    ELSE CheckResult("tailscaled version", FALSE, Some(16))

\* check_permissions, check_https_enabled, check_funnel_capability, check_dns_name
CheckStatus(st) ==
    << IF st.permissions_ok = Some(TRUE) THEN CheckResult("Permissions", TRUE, None)
       ELSE CheckResult("Permissions", FALSE, Some(11)),
       IF st.https_enabled = Some(TRUE) THEN CheckResult("HTTPS enabled", TRUE, None)
       ELSE CheckResult("HTTPS enabled", FALSE, Some(12)),
       IF st.funnel_enabled = Some(TRUE) THEN CheckResult("Funnel capability", TRUE, None)
       ELSE CheckResult("Funnel capability", FALSE, Some(12)),
       IF IsSome(st.dns_name) THEN CheckResult("DNS name available", TRUE, None)
       ELSE CheckResult("DNS name available", FALSE, Some(12)) >>

\* The five checks that cannot be made, with the code of the reason.
CannotCheck(code) ==
    [i \in 1..5 |->
        CheckResult(<< "tailscaled version", "Permissions", "HTTPS enabled",
                       "Funnel capability", "DNS name available" >>[i], FALSE, Some(code))]

\* check_tailscaled_reachable and check_localapi_auth on what status() returned.
CheckReachable(r) ==
    IF r.ok \/ r.error.kind = "Permission"
    THEN CheckResult("tailscaled reachable", TRUE, None)
    ELSE CheckResult("tailscaled reachable", FALSE, Some(10))
CheckLocalapiAuth(r) ==
    IF r.ok THEN CheckResult("LocalAPI auth", TRUE, None)
    ELSE IF r.error.kind = "Permission" THEN CheckResult("LocalAPI auth", FALSE, Some(11))
    ELSE CheckResult("LocalAPI auth", FALSE, Some(10))

\* select_exit_code: the first code of the priority list that a failed check has.
RECURSIVE FirstCode(_, _)
FirstCode(priority, checks) ==
    IF priority = << >> THEN 0
    ELSE IF \E i \in 1..Len(checks) :
               ~checks[i].passed /\ checks[i].error_code = Some(Head(priority))
         THEN Head(priority)
         ELSE FirstCode(Tail(priority), checks)
SelectExitCode(checks) == FirstCode(<< 10, 11, 16, 12, 13, 14, 15, 2, 1 >>, checks)

\* DoctorCommand::run on what backend.status() returned: the checks and the exit code.
DoctorChecks(r, tcp_mode) ==
    << CheckReachable(r) >>
    \o (IF tcp_mode THEN << CheckLocalapiAuth(r) >> ELSE << >>)
    \o (IF r.ok THEN << CheckVersion(r.status) >> \o CheckStatus(r.status)
        ELSE IF r.error.kind = "Permission" THEN CannotCheck(11)
        ELSE CannotCheck(10))

\* What backend.status() may return to the doctor.
StatusResults ==
    {[ok |-> TRUE, error |-> NoError,
      status |-> [version |-> st.version, dns_name |-> st.dns_name,
                  https_enabled |-> st.https_enabled, funnel_enabled |-> st.funnel_enabled,
                  permissions_ok |-> perm]] :
        st \in Statuses, perm \in {None, Some(TRUE), Some(FALSE)}}
    \cup {[ok |-> FALSE, error |-> MapTransportError(e), status |-> None] :
            e \in TransportErrors}

DoctorRun ==
    /\ IsSome(args)
    /\ validated = None
    /\ LET checks == DoctorChecks(Unwrap(args).status_result, Unwrap(args).tcp_mode)
       IN validated' = Some([checks |-> checks, exit_code |-> SelectExitCode(checks)])
    /\ UNCHANGED << args, racers, streamVars, teardownVars, openVars, applyVars, tcpVars,
                    engineVars >>

NextDoctor == DoctorRun

InitDoctor ==
    /\ ApplyIdle
    /\ TcpIdle
    /\ EngineIdle
    /\ StreamIdle
    /\ TeardownIdle
    /\ OpenIdle
    /\ RaceIdle
    /\ args \in {Some([status_result |-> r, tcp_mode |-> t]) :
                    r \in StatusResults, t \in BOOLEAN}
    /\ validated = None

SpecDoctor == InitDoctor /\ [][NextDoctor]_vars

\* C38: for every version the daemon reports, the doctor's version check
\* passes exactly when apply's minimum-version check accepts the version.
C38_DoctorAgreesWithApply ==
    (IsSome(args) /\ IsSome(validated) /\ Unwrap(args).status_result.ok) =>
        LET st == Unwrap(args).status_result.status
            line == CHOOSE c \in {Unwrap(validated).checks[i] :
                                    i \in 1..Len(Unwrap(validated).checks)} :
                        c.name = "tailscaled version"
        IN line.passed = (EnsureVersionSupported(st.version) = NoError)

\* Where the two checks do agree: on every version whose first three parts
\* are numbers, and on a missing version.
C38_AgreeOnNumericVersions ==
    (IsSome(args) /\ IsSome(validated) /\ Unwrap(args).status_result.ok) =>
        LET st == Unwrap(args).status_result.status
            line == CHOOSE c \in {Unwrap(validated).checks[i] :
                                    i \in 1..Len(Unwrap(validated).checks)} :
                        c.name = "tailscaled version"
        IN (IsSome(st.version) =>
                (Len(Unwrap(st.version)) >= 3
                 /\ \A i \in 1..3 : Unwrap(st.version)[i] >= 0)) =>
              line.passed = (EnsureVersionSupported(st.version) = NoError)

\* ------------------------------------------------- a re-read that fails

\* The request was answered 401 and send returned without a second answer:
\* the re-read of the password file failed.
RereadFailed ==
    /\ tpc = "Idle"
    /\ Len(responses) = 1
    /\ responses[1] = Unauthorized

\* C39: when the re-read of the password file after a 401 fails, send
\* returns the credential error of the file, sends no retry, and the stored
\* secret is the one it was before.
C39_FailedRereadIsCredentialError ==
    RereadFailed =>
        /\ outcome.kind = "InvalidArgument"
        /\ rereads = 1
        /\ Len(sends) = 1
        /\ sends[1].authorization = BuildBasicAuth(password)

\* What holds of every failed re-read: an error of the file is returned,
\* the credential error or the one of a file that is not there, no retry is
\* sent and the stored secret is kept.
C39_FailedRereadKeepsSecret ==
    RereadFailed =>
        /\ outcome.kind \in {"InvalidArgument", "Unreachable"}
        /\ rereads = 1
        /\ Len(sends) = 1
        /\ sends[1].authorization = BuildBasicAuth(password)

\* ------------------------------------------------------------- termination

\* apply called once, on either document, with every request answered and
\* the stream ending or giving its id: each step of apply is taken in the end.
InitLive ==
    /\ doc \in InitialDocs
    /\ rev = 1
    /\ spec = [local_target |-> Target1, https_port |-> HttpsPort,
               path |-> PathA, funnel |-> TRUE]
    /\ force \in BOOLEAN
    /\ ApplyStart
    /\ TcpIdle
    /\ EngineIdle
    /\ CommandIdle

SpecLive ==
    /\ InitLive
    /\ [][Next]_vars
    /\ WF_vars(OpenStream)
    /\ WF_vars(ProbeLocalTarget)
    /\ WF_vars(FetchStatus)
    /\ WF_vars(GetServeConfig)
    /\ WF_vars(SetServeConfig)

\* The requests of one kind apply has issued.
Issued(op) == Len(SelectSeq(log, LAMBDA e : e.op = op))

ApplyEnded == pc \in {"Committed", "Failed"}

\* C40: apply ends, committed or with an error, having opened the stream,
\* probed the local target and fetched the status once at most, and read
\* and written the configuration three times at most; once it has ended it
\* issues nothing more.
C40_ApplyTerminates ==
    /\ <>ApplyEnded
    /\ [](/\ Issued("watch") <= 1
          /\ Issued("probe") <= 1
          /\ Issued("status") <= 1
          /\ Issued("get") <= 3
          /\ Issued("post") <= 3
          /\ Len(log) <= 9)
    /\ [][ApplyEnded => (ApplyEnded' /\ log' = log)]_vars

\* C40 witness: apply ended after it had used up everything: one stream,
\* one probe, one status, three reads and three writes.
C40_Witness ==
    /\ ApplyEnded
    /\ Issued("watch") = 1
    /\ Issued("probe") = 1
    /\ Issued("status") = 1
    /\ Issued("get") = 3
    /\ Issued("post") = 3

====
